---------------------------- MODULE Spec2Model ----------------------------
(***************************************************************************)
(* A model of the AdVantage log ingestion engine: the Beeswax CSV parser   *)
(* (ParseBeeswaxLog) and the service around it (LogProcessorService).      *)
(*                                                                         *)
(* Text is modelled character by character: a cell, a header token and a   *)
(* breakdown key are sequences of one-character strings, so that parsing,  *)
(* upper-casing and formatting are computed rather than assumed.           *)
(* Go's int, int64 are two's-complement integers of IntBits bits (64 in    *)
(* the build; scaled down here so that the range is reachable), and a      *)
(* float64 is a binary floating-point number with a significand of         *)
(* FloatBits bits (53 in the build), rounded to nearest-even.  The float64 *)
(* currency totals are carried as the exact number of micro-units they     *)
(* stand for; the derived metrics and the numbers decoded from JSON are    *)
(* rounded as float64 values are.                                          *)
(***************************************************************************)
EXTENDS Integers, Sequences, FiniteSets, TLC

(***************************************************************************)
(* Bounds of the model.                                                    *)
(***************************************************************************)
IntBits == 7
FloatBits == 5
MaxRows == 2
MaxCalls == 2

(***************************************************************************)
(* Characters and strings.                                                 *)
(***************************************************************************)
Range(f) == {f[x] : x \in DOMAIN f}

Max(a, b) == IF a >= b THEN a ELSE b

Min(a, b) == IF a <= b THEN a ELSE b

Digits == <<"0","1","2","3","4","5","6","7","8","9">>

IsDigit(c) == \E i \in 1..10 : Digits[i] = c

DigitVal(c) == (CHOOSE i \in 1..10 : Digits[i] = c) - 1

LowerLetters ==
    <<"a","b","c","d","e","f","g","h","i","j","k","l","m","n","o","p","q","r","s","t","u","v","w","x","y","z">>

UpperLetters ==
    <<"A","B","C","D","E","F","G","H","I","J","K","L","M","N","O","P","Q","R","S","T","U","V","W","X","Y","Z">>

\* strings.ToUpper, one character
UpperChar(c) ==
    IF \E i \in 1..26 : LowerLetters[i] = c
    THEN UpperLetters[CHOOSE i \in 1..26 : LowerLetters[i] = c]
    ELSE c

\* strings.ToUpper
ToUpper(s) == [i \in 1..Len(s) |-> UpperChar(s[i])]

\* the rest of s from position i on (Go's s[i-1:])
From(s, i) == SubSeq(s, i, Len(s))

(***************************************************************************)
(* The required columns (requiredCols).                                    *)
(***************************************************************************)
ACCOUNT_ID ==
    <<"A","C","C","O","U","N","T","_","I","D">>

AUCTION_ID ==
    <<"A","U","C","T","I","O","N","_","I","D">>

BID_PRICE_MICROS_USD ==
    <<"B","I","D","_","P","R","I","C","E","_","M","I","C","R","O","S","_","U","S","D">>

BID_TIME ==
    <<"B","I","D","_","T","I","M","E">>

CAMPAIGN_ID ==
    <<"C","A","M","P","A","I","G","N","_","I","D">>

CLEARING_PRICE_MICROS_USD ==
    <<"C","L","E","A","R","I","N","G","_","P","R","I","C","E","_","M","I","C","R","O","S","_","U","S","D">>

CLICKS ==
    <<"C","L","I","C","K","S">>

CONVERSIONS ==
    <<"C","O","N","V","E","R","S","I","O","N","S">>

CREATIVE_ID ==
    <<"C","R","E","A","T","I","V","E","_","I","D">>

DOMAIN_ ==
    <<"D","O","M","A","I","N">>

GEO_COUNTRY ==
    <<"G","E","O","_","C","O","U","N","T","R","Y">>

GEO_CITY ==
    <<"G","E","O","_","C","I","T","Y">>

PLATFORM_DEVICE_TYPE ==
    <<"P","L","A","T","F","O","R","M","_","D","E","V","I","C","E","_","T","Y","P","E">>

PLATFORM_BROWSER ==
    <<"P","L","A","T","F","O","R","M","_","B","R","O","W","S","E","R">>

PLATFORM_OS ==
    <<"P","L","A","T","F","O","R","M","_","O","S">>

WIN_COST_MICROS_USD ==
    <<"W","I","N","_","C","O","S","T","_","M","I","C","R","O","S","_","U","S","D">>

requiredCols ==
    << ACCOUNT_ID, AUCTION_ID, BID_PRICE_MICROS_USD, BID_TIME,
       CAMPAIGN_ID, CLEARING_PRICE_MICROS_USD, CLICKS, CONVERSIONS,
       CREATIVE_ID, DOMAIN_, GEO_COUNTRY, GEO_CITY,
       PLATFORM_DEVICE_TYPE, PLATFORM_BROWSER, PLATFORM_OS, WIN_COST_MICROS_USD >>

(***************************************************************************)
(* strconv.ParseInt(s, 10, 64) and strconv.Atoi(s).                        *)
(***************************************************************************)
MaxInt == 2^(IntBits - 1) - 1

MinInt == -(2^(IntBits - 1))

\* the value of an int after an addition that overflows: two's complement
Wrap(x) == ((x - MinInt) % (2^IntBits)) + MinInt

\* The magnitude of a digit string, saturated just above the int range;
\* -1 when s is empty or holds a character that is not a digit.
RECURSIVE Magnitude(_, _)
Magnitude(s, acc) ==
    IF s = <<>> THEN acc
    ELSE IF ~IsDigit(s[1]) THEN -1
    ELSE Magnitude(Tail(s), Min(acc * 10 + DigitVal(s[1]), MaxInt + 2))

\* ParseInt changed to return -1 for a syntax error
ParseIntSentinel(s) ==
    LET neg  == s # <<>> /\ s[1] = "-"
        body == IF s # <<>> /\ s[1] \in {"+", "-"} THEN Tail(s) ELSE s
        un   == IF body = <<>> THEN -1 ELSE Magnitude(body, 0)
    IN  IF un = -1 THEN [val |-> -1, err |-> "ErrSyntax"]
        ELSE IF ~neg /\ un > MaxInt THEN [val |-> MaxInt, err |-> "ErrRange"]
        ELSE IF neg /\ un > MaxInt + 1 THEN [val |-> MinInt, err |-> "ErrRange"]
        ELSE [val |-> IF neg THEN -un ELSE un, err |-> ""]

\* strconv.ParseInt: the value and the error ("" for nil).  A syntax error
\* returns 0; a range error returns the nearest bound of the type.
ParseInt(s) ==
    LET neg  == s # <<>> /\ s[1] = "-"
        body == IF s # <<>> /\ s[1] \in {"+", "-"} THEN Tail(s) ELSE s
        un   == IF body = <<>> THEN -1 ELSE Magnitude(body, 0)
    IN  IF un = -1 THEN [val |-> 0, err |-> "ErrSyntax"]
        ELSE IF ~neg /\ un > MaxInt THEN [val |-> MaxInt, err |-> "ErrRange"]
        ELSE IF neg /\ un > MaxInt + 1 THEN [val |-> MinInt, err |-> "ErrRange"]
        ELSE [val |-> IF neg THEN -un ELSE un, err |-> ""]

\* strconv.Atoi: ParseInt at the width of int
Atoi(s) == ParseInt(s)

(***************************************************************************)
(* float64.  A value is <<m, e>> and stands for m * 2^e; m is odd, or 0    *)
(* with e = 0, so that equal numbers are equal values.  Every operation    *)
(* returns the exact result rounded to FloatBits significant bits, to the  *)
(* nearest value and on a tie to the one with an even significand.         *)
(***************************************************************************)
RECURSIVE Normal(_, _)
Normal(m, e) ==
    IF m = 0 THEN <<0, 0>>
    ELSE IF m % 2 = 0 THEN Normal(m \div 2, e + 1)
    ELSE <<m, e>>

\* the float64 nearest to (n / d) * 2^e, for n > 0 and d > 0
RECURSIVE RoundPos(_, _, _)
RoundPos(n, d, e) ==
    IF n >= d * 2^FloatBits THEN RoundPos(n, d * 2, e + 1)
    ELSE IF n < d * 2^(FloatBits - 1) THEN RoundPos(n * 2, d, e - 1)
    ELSE LET m  == n \div d
             r  == n % d
             up == 2 * r > d \/ (2 * r = d /\ m % 2 = 1)
         IN  Normal(IF up THEN m + 1 ELSE m, e)

\* the float64 nearest to (n / d) * 2^e, for d # 0
Round(n, d, e) ==
    IF n = 0 THEN <<0, 0>>
    ELSE IF (n < 0) = (d < 0)
    THEN RoundPos(IF n < 0 THEN -n ELSE n, IF d < 0 THEN -d ELSE d, e)
    ELSE LET r == RoundPos(IF n < 0 THEN -n ELSE n, IF d < 0 THEN -d ELSE d, e)
         IN  <<-r[1], r[2]>>

\* float64(i)
FromInt(i) == Round(i, 1, 0)

\* a / b
FDiv(a, b) == Round(a[1], b[1], a[2] - b[2])

\* a * b
FMul(a, b) == Round(a[1] * b[1], 1, a[2] + b[2])

\* a * 100 (the constant 100 is a float64)
Times100(a) == Round(a[1] * 100, 1, a[2])

(***************************************************************************)
(* time.Time, time.Parse and Time.Format for the two layouts of the parser.*)
(* A time is <<year, month, day, hour, minute, second, millisecond>> (UTC);*)
(* fractional digits after the third are not represented.                  *)
(***************************************************************************)
ZeroTime == <<1, 1, 1, 0, 0, 0, 0>>

NoTime == [ok |-> FALSE, t |-> ZeroTime]

\* Time.IsZero
IsZero(t) == t = ZeroTime

RECURSIVE LexLess(_, _)
LexLess(a, b) ==
    IF a = <<>> THEN FALSE
    ELSE IF a[1] # b[1] THEN a[1] < b[1]
    ELSE LexLess(Tail(a), Tail(b))

\* Time.Before, Time.After
Before(a, b) == LexLess(a, b)

After(a, b) == LexLess(b, a)

IsLeap(y) == y % 4 = 0 /\ (y % 100 # 0 \/ y % 400 = 0)

\* time.daysIn
DaysIn(m, y) ==
    IF m = 2 THEN (IF IsLeap(y) THEN 29 ELSE 28)
    ELSE IF m \in {4, 6, 9, 11} THEN 30 ELSE 31

DigitAt(v, i) == Len(v) >= i /\ IsDigit(v[i])

\* time.getnum: a two-digit number, or one digit when fixed is FALSE and no
\* second digit follows; n is the number of characters taken (0: error)
GetNum(v, fixed) ==
    IF ~DigitAt(v, 1) THEN [n |-> 0, val |-> 0]
    ELSE IF ~DigitAt(v, 2)
         THEN (IF fixed THEN [n |-> 0, val |-> 0] ELSE [n |-> 1, val |-> DigitVal(v[1])])
         ELSE [n |-> 2, val |-> DigitVal(v[1]) * 10 + DigitVal(v[2])]

\* time.cutspace
RECURSIVE CutSpace(_)
CutSpace(v) == IF v # <<>> /\ v[1] = " " THEN CutSpace(Tail(v)) ELSE v

\* a literal character of the layout
Lit(v, c) == v # <<>> /\ v[1] = c

\* the number of leading digits of v
RECURSIVE DigitRun(_)
DigitRun(v) == IF DigitAt(v, 1) THEN 1 + DigitRun(Tail(v)) ELSE 0

\* time.parseNanoseconds, kept to milliseconds: v holds the digits
FracMillis(v) ==
    LET d(i) == IF i <= Len(v) THEN DigitVal(v[i]) ELSE 0
    IN  d(1) * 100 + d(2) * 10 + d(3)

\* The fraction that follows the seconds.  With the layout ending in ".000"
\* exactly three digits are required after the mark; with the layout ending
\* at the seconds a fraction of any length is accepted and nothing else may
\* follow.  n = -1: error.
ParseFrac(v, withMillis) ==
    LET mark == v # <<>> /\ v[1] \in {".", ","}
        run  == IF mark THEN DigitRun(Tail(v)) ELSE 0
    IN  IF withMillis
        THEN IF mark /\ run >= 3 /\ Len(v) = 4
             THEN [ok |-> TRUE, ms |-> FracMillis(SubSeq(v, 2, 4))]
             ELSE [ok |-> FALSE, ms |-> 0]
        ELSE IF v = <<>> THEN [ok |-> TRUE, ms |-> 0]
             ELSE IF mark /\ run >= 1 /\ Len(v) = run + 1
                  THEN [ok |-> TRUE, ms |-> FracMillis(Tail(v))]
                  ELSE [ok |-> FALSE, ms |-> 0]

\* time.Parse(layout, v) for layout "2006-01-02 15:04:05.000" (withMillis)
\* and "2006-01-02 15:04:05"
ParseLayout(v, withMillis) ==
    LET yOk  == Len(v) >= 4 /\ \A i \in 1..4 : IsDigit(v[i])
        year == DigitVal(v[1]) * 1000 + DigitVal(v[2]) * 100 + DigitVal(v[3]) * 10 + DigitVal(v[4])
        v1   == From(v, 5)
        mo   == GetNum(From(v1, 2), TRUE)
        v2   == From(v1, 4)
        dd   == GetNum(From(v2, 2), TRUE)
        v3   == From(v2, 4)
        v4   == CutSpace(v3)
        hh   == GetNum(v4, FALSE)
        v5   == From(v4, hh.n + 1)
        mi   == GetNum(From(v5, 2), TRUE)
        v6   == From(v5, 4)
        ss   == GetNum(From(v6, 2), TRUE)
        v7   == From(v6, 4)
        fr   == ParseFrac(v7, withMillis)
    IN  IF /\ yOk
           /\ Lit(v1, "-") /\ mo.n = 2 /\ mo.val \in 1..12
           /\ Lit(v2, "-") /\ dd.n = 2
           /\ Lit(v3, " ")
           /\ hh.n > 0 /\ hh.val < 24
           /\ Lit(v5, ":") /\ mi.n = 2 /\ mi.val < 60
           /\ Lit(v6, ":") /\ ss.n = 2 /\ ss.val < 60
           /\ fr.ok
           /\ dd.val >= 1 /\ dd.val <= DaysIn(mo.val, year)
        THEN [ok |-> TRUE, t |-> <<year, mo.val, dd.val, hh.val, mi.val, ss.val, fr.ms>>]
        ELSE NoTime

\* The parser's two attempts: the layout with milliseconds, then the one
\* without; the zero time when the cell is empty or both attempts fail.
ParseBidTime(bidTimeStr) ==
    IF bidTimeStr = <<>> THEN ZeroTime
    ELSE LET first == ParseLayout(bidTimeStr, TRUE)
         IN  IF first.ok THEN first.t
             ELSE ParseLayout(bidTimeStr, FALSE).t

Pad2(n) == <<Digits[((n \div 10) % 10) + 1], Digits[(n % 10) + 1]>>

Pad4(n) == Pad2(n \div 100) \o Pad2(n % 100)

\* bidTime.Format("2006-01-02 15")
HourKey(t) == Pad4(t[1]) \o <<"-">> \o Pad2(t[2]) \o <<"-">> \o Pad2(t[3]) \o <<" ">> \o Pad2(t[4])

\* time.Date(9999, 1, 1, ...) and time.Date(1970, 1, 1, ...)
FarFuture == <<9999, 1, 1, 0, 0, 0, 0>>

FarPast == <<1970, 1, 1, 0, 0, 0, 0>>

(***************************************************************************)
(* ParseBeeswaxLog: header resolution.                                     *)
(***************************************************************************)
\* colMap[col] = i for every header cell, in order: the last position of a
\* repeated token stays (positions count from 0 as in the source)
BuildColMap(header) ==
    [tok \in Range(header) |->
        (CHOOSE i \in 1..Len(header) :
            header[i] = tok /\ \A j \in 1..Len(header) : header[j] = tok => j <= i) - 1]

\* ResolveColumns changed to look for the exact name only
RECURSIVE ResolveColumnsExact(_, _)
ResolveColumnsExact(colMap, k) ==
    IF k > Len(requiredCols)
    THEN {[ok |-> TRUE, colMap |-> colMap, col |-> <<>>]}
    ELSE IF requiredCols[k] \in DOMAIN colMap THEN ResolveColumnsExact(colMap, k + 1)
    ELSE {[ok |-> FALSE, colMap |-> colMap, col |-> requiredCols[k]]}

\* ResolveColumns changed to go on to the next column when one is not found
RECURSIVE ResolveColumnsLenient(_, _)
ResolveColumnsLenient(colMap, k) ==
    IF k > Len(requiredCols)
    THEN {[ok |-> TRUE, colMap |-> colMap, col |-> <<>>]}
    ELSE LET col   == requiredCols[k]
             found == {headerCol \in DOMAIN colMap : ToUpper(headerCol) = col}
         IN  IF col \in DOMAIN colMap \/ found = {} THEN ResolveColumnsLenient(colMap, k + 1)
             ELSE UNION {ResolveColumnsLenient(colMap @@ (col :> colMap[headerCol]), k + 1) :
                            headerCol \in found}

\* ResolveColumns changed to range over the map for every column, whether or
\* not the map holds its exact name
RECURSIVE ResolveColumnsAnyCase(_, _)
ResolveColumnsAnyCase(colMap, k) ==
    IF k > Len(requiredCols)
    THEN {[ok |-> TRUE, colMap |-> colMap, col |-> <<>>]}
    ELSE LET col   == requiredCols[k]
             found == {headerCol \in DOMAIN colMap : ToUpper(headerCol) = col}
         IN  IF found = {} THEN {[ok |-> FALSE, colMap |-> colMap, col |-> col]}
             ELSE UNION {ResolveColumnsAnyCase([c \in DOMAIN colMap \cup {col} |->
                                                   IF c = col THEN colMap[headerCol] ELSE colMap[c]],
                                               k + 1) :
                            headerCol \in found}

\* The validation loop over requiredCols[k..].  A column with no exact key
\* is looked up by ranging over the map, whose order is not specified: any
\* key that upper-cases to the column may be the one found.  The set of the
\* possible outcomes: the resolved map, or the first column not found.
RECURSIVE ResolveColumns(_, _)
ResolveColumns(colMap, k) ==
    IF k > Len(requiredCols)
    THEN {[ok |-> TRUE, colMap |-> colMap, col |-> <<>>]}
    ELSE LET col   == requiredCols[k]
             found == {headerCol \in DOMAIN colMap : ToUpper(headerCol) = col}
         IN  IF col \in DOMAIN colMap THEN ResolveColumns(colMap, k + 1)
             ELSE IF found = {} THEN {[ok |-> FALSE, colMap |-> colMap, col |-> col]}
             ELSE UNION {ResolveColumns(colMap @@ (col :> colMap[headerCol]), k + 1) :
                            headerCol \in found}

(***************************************************************************)
(* ParseBeeswaxLog: the summary and the per-row aggregation.               *)
(* TotalBidAmount, TotalWinCost and Spend hold micro-units (the dollars of *)
(* the source times 1,000,000).  A ratio is a float64.                     *)
(***************************************************************************)
EmptyMap == [k \in {} |-> 0]

ZeroRatio == <<0, 0>>

\* the zero value of CampaignMetrics
NewCampaign == [Impressions |-> 0, Clicks |-> 0, Conversions |-> 0, Spend |-> 0, CTR |-> ZeroRatio]

\* NewSummary changed to start the time range at 1970-01-01 on both ends
NewSummaryEpochs ==
    [ TotalRecords |-> 0, TotalImpressions |-> 0, TotalClicks |-> 0, TotalConversions |-> 0,
      TotalBidAmount |-> 0, TotalWinCost |-> 0,
      CTR |-> ZeroRatio, AverageBidPrice |-> ZeroRatio, AverageWinRate |-> ZeroRatio,
      TimeRange |-> <<FarPast, FarPast>>,
      DeviceBreakdown |-> EmptyMap, BrowserBreakdown |-> EmptyMap, OSBreakdown |-> EmptyMap,
      GeoBreakdown |-> EmptyMap, HourlyBreakdown |-> EmptyMap, DomainBreakdown |-> EmptyMap,
      CampaignPerformance |-> EmptyMap ]

\* the summary as initialised before the first record
NewSummary ==
    [ TotalRecords |-> 0, TotalImpressions |-> 0, TotalClicks |-> 0, TotalConversions |-> 0,
      TotalBidAmount |-> 0, TotalWinCost |-> 0,
      CTR |-> ZeroRatio, AverageBidPrice |-> ZeroRatio, AverageWinRate |-> ZeroRatio,
      TimeRange |-> <<FarFuture, FarPast>>,
      DeviceBreakdown |-> EmptyMap, BrowserBreakdown |-> EmptyMap, OSBreakdown |-> EmptyMap,
      GeoBreakdown |-> EmptyMap, HourlyBreakdown |-> EmptyMap, DomainBreakdown |-> EmptyMap,
      CampaignPerformance |-> EmptyMap ]

\* getValueSafely
getValueSafely(colMap, record, colName) ==
    IF colName \notin DOMAIN colMap \/ colMap[colName] >= Len(record)
    THEN <<>>
    ELSE record[colMap[colName] + 1]

\* m[key]++ on a map[string]int
Incr(m, key) ==
    IF key \in DOMAIN m THEN [m EXCEPT ![key] = Wrap(@ + 1)] ELSE m @@ (key :> 1)

\* IncrNonEmpty changed to count the empty string too
IncrAlways(m, key) == Incr(m, key)

\* m[key]++ unless the key is the empty string
IncrNonEmpty(m, key) == IF key # <<>> THEN Incr(m, key) ELSE m

\* UpdateTime changed to count the zero time too
UpdateTimeAlways(summary, bidTime) ==
    [summary EXCEPT
        !.TimeRange = << IF Before(bidTime, @[1]) THEN bidTime ELSE @[1],
                         IF After(bidTime, @[2]) THEN bidTime ELSE @[2] >>,
        !.HourlyBreakdown = Incr(@, HourKey(bidTime))]

\* the time range and the hourly breakdown after a record with this bid time
UpdateTime(summary, bidTime) ==
    IF IsZero(bidTime) THEN summary
    ELSE [summary EXCEPT
            !.TimeRange = << IF Before(bidTime, @[1]) THEN bidTime ELSE @[1],
                             IF After(bidTime, @[2]) THEN bidTime ELSE @[2] >>,
            !.HourlyBreakdown = Incr(@, HourKey(bidTime))]

\* UpdateCampaign changed to keep an entry for the empty campaign id too
UpdateCampaignAlways(perf, campaignID, clicks, conversions, winCost) ==
    LET campaign == IF campaignID \in DOMAIN perf THEN perf[campaignID] ELSE NewCampaign
        updated  == [campaign EXCEPT !.Impressions = Wrap(@ + 1),
                                     !.Clicks = Wrap(@ + clicks),
                                     !.Conversions = Wrap(@ + conversions),
                                     !.Spend = @ + winCost]
    IN  IF campaignID \in DOMAIN perf
        THEN [perf EXCEPT ![campaignID] = updated]
        ELSE perf @@ (campaignID :> updated)

\* UpdateCampaign changed to keep the clicks of the last record only
UpdateCampaignLastClicks(perf, campaignID, clicks, conversions, winCost) ==
    IF campaignID = <<>> THEN perf
    ELSE LET campaign == IF campaignID \in DOMAIN perf THEN perf[campaignID] ELSE NewCampaign
             updated  == [campaign EXCEPT !.Impressions = Wrap(@ + 1),
                                          !.Clicks = clicks,
                                          !.Conversions = Wrap(@ + conversions),
                                          !.Spend = @ + winCost]
         IN  IF campaignID \in DOMAIN perf
             THEN [perf EXCEPT ![campaignID] = updated]
             ELSE perf @@ (campaignID :> updated)

\* UpdateCampaign changed to compute the entry's CTR with every record
UpdateCampaignWithCTR(perf, campaignID, clicks, conversions, winCost) ==
    IF campaignID = <<>> THEN perf
    ELSE LET campaign == IF campaignID \in DOMAIN perf THEN perf[campaignID] ELSE NewCampaign
             counted  == [campaign EXCEPT !.Impressions = Wrap(@ + 1),
                                          !.Clicks = Wrap(@ + clicks),
                                          !.Conversions = Wrap(@ + conversions),
                                          !.Spend = @ + winCost]
             updated  == [counted EXCEPT !.CTR =
                             IF counted.Impressions > 0
                             THEN Times100(FDiv(FromInt(counted.Clicks), FromInt(counted.Impressions)))
                             ELSE @]
         IN  IF campaignID \in DOMAIN perf
             THEN [perf EXCEPT ![campaignID] = updated]
             ELSE perf @@ (campaignID :> updated)

\* the campaign map after a record of this campaign
UpdateCampaign(perf, campaignID, clicks, conversions, winCost) ==
    IF campaignID = <<>> THEN perf
    ELSE LET campaign == IF campaignID \in DOMAIN perf THEN perf[campaignID] ELSE NewCampaign
             updated  == [campaign EXCEPT !.Impressions = Wrap(@ + 1),
                                          !.Clicks = Wrap(@ + clicks),
                                          !.Conversions = Wrap(@ + conversions),
                                          !.Spend = @ + winCost]
         IN  IF campaignID \in DOMAIN perf
             THEN [perf EXCEPT ![campaignID] = updated]
             ELSE perf @@ (campaignID :> updated)

\* DecodeRecord changed to take the win cost from the clearing price
DecodeRecordClearing(colMap, record) ==
    [ bidTime     |-> ParseBidTime(getValueSafely(colMap, record, BID_TIME)),
      bidPrice    |-> ParseInt(getValueSafely(colMap, record, BID_PRICE_MICROS_USD)).val,
      winCost     |-> ParseInt(getValueSafely(colMap, record, CLEARING_PRICE_MICROS_USD)).val,
      clicks      |-> Atoi(getValueSafely(colMap, record, CLICKS)).val,
      conversions |-> Atoi(getValueSafely(colMap, record, CONVERSIONS)).val,
      campaignID  |-> getValueSafely(colMap, record, CAMPAIGN_ID),
      domain      |-> getValueSafely(colMap, record, DOMAIN_),
      country     |-> getValueSafely(colMap, record, GEO_COUNTRY),
      deviceType  |-> getValueSafely(colMap, record, PLATFORM_DEVICE_TYPE),
      browser     |-> getValueSafely(colMap, record, PLATFORM_BROWSER),
      os          |-> getValueSafely(colMap, record, PLATFORM_OS) ]

\* The decoded fields of one record.
DecodeRecord(colMap, record) ==
    [ bidTime     |-> ParseBidTime(getValueSafely(colMap, record, BID_TIME)),
      bidPrice    |-> ParseInt(getValueSafely(colMap, record, BID_PRICE_MICROS_USD)).val,
      winCost     |-> ParseInt(getValueSafely(colMap, record, WIN_COST_MICROS_USD)).val,
      clicks      |-> Atoi(getValueSafely(colMap, record, CLICKS)).val,
      conversions |-> Atoi(getValueSafely(colMap, record, CONVERSIONS)).val,
      campaignID  |-> getValueSafely(colMap, record, CAMPAIGN_ID),
      domain      |-> getValueSafely(colMap, record, DOMAIN_),
      country     |-> getValueSafely(colMap, record, GEO_COUNTRY),
      deviceType  |-> getValueSafely(colMap, record, PLATFORM_DEVICE_TYPE),
      browser     |-> getValueSafely(colMap, record, PLATFORM_BROWSER),
      os          |-> getValueSafely(colMap, record, PLATFORM_OS) ]

\* AggregateRecord changed to reject a record whose bid price fails to parse
AggregateRecordRejecting(summary, colMap, record) ==
    LET d == DecodeRecord(colMap, record)
    IN  IF ParseInt(getValueSafely(colMap, record, BID_PRICE_MICROS_USD)).err # ""
        THEN summary
        ELSE [UpdateTime(summary, d.bidTime) EXCEPT
                !.TotalRecords = Wrap(@ + 1),
                !.TotalImpressions = Wrap(@ + 1),
                !.TotalClicks = Wrap(@ + d.clicks),
                !.TotalConversions = Wrap(@ + d.conversions),
                !.TotalBidAmount = @ + d.bidPrice,
                !.TotalWinCost = @ + d.winCost,
                !.DeviceBreakdown = IncrNonEmpty(@, d.deviceType),
                !.BrowserBreakdown = IncrNonEmpty(@, d.browser),
                !.OSBreakdown = IncrNonEmpty(@, d.os),
                !.GeoBreakdown = IncrNonEmpty(@, d.country),
                !.DomainBreakdown = IncrNonEmpty(@, d.domain),
                !.CampaignPerformance =
                    UpdateCampaign(@, d.campaignID, d.clicks, d.conversions, d.winCost)]

\* AggregateRecord changed to add the win cost to the bid total and the bid
\* price to the win-cost total
AggregateRecordSwapped(summary, colMap, record) ==
    LET d == DecodeRecord(colMap, record)
    IN  [UpdateTime(summary, d.bidTime) EXCEPT
            !.TotalRecords = Wrap(@ + 1),
            !.TotalImpressions = Wrap(@ + 1),
            !.TotalClicks = Wrap(@ + d.clicks),
            !.TotalConversions = Wrap(@ + d.conversions),
            !.TotalBidAmount = @ + d.winCost,
            !.TotalWinCost = @ + d.bidPrice,
            !.DeviceBreakdown = IncrNonEmpty(@, d.deviceType),
            !.BrowserBreakdown = IncrNonEmpty(@, d.browser),
            !.OSBreakdown = IncrNonEmpty(@, d.os),
            !.GeoBreakdown = IncrNonEmpty(@, d.country),
            !.DomainBreakdown = IncrNonEmpty(@, d.domain),
            !.CampaignPerformance =
                UpdateCampaign(@, d.campaignID, d.clicks, d.conversions, d.winCost)]

\* The body of the record loop: the summary after one more record.
AggregateRecord(summary, colMap, record) ==
    LET d  == DecodeRecord(colMap, record)
        s1 == UpdateTime(summary, d.bidTime)
    IN  [s1 EXCEPT
            !.TotalRecords = Wrap(@ + 1),
            !.TotalImpressions = Wrap(@ + 1),
            !.TotalClicks = Wrap(@ + d.clicks),
            !.TotalConversions = Wrap(@ + d.conversions),
            !.TotalBidAmount = @ + d.bidPrice,
            !.TotalWinCost = @ + d.winCost,
            !.DeviceBreakdown = IncrNonEmpty(@, d.deviceType),
            !.BrowserBreakdown = IncrNonEmpty(@, d.browser),
            !.OSBreakdown = IncrNonEmpty(@, d.os),
            !.GeoBreakdown = IncrNonEmpty(@, d.country),
            !.DomainBreakdown = IncrNonEmpty(@, d.domain),
            !.CampaignPerformance =
                UpdateCampaign(@, d.campaignID, d.clicks, d.conversions, d.winCost)]

\* Finalize changed to leave the rates as fractions, not percentages
FinalizeFractions(summary) ==
    LET perf == summary.CampaignPerformance
    IN  [summary EXCEPT
            !.AverageBidPrice =
                IF summary.TotalRecords > 0
                THEN FDiv(FromInt(summary.TotalBidAmount), FromInt(summary.TotalRecords))
                ELSE @,
            !.CTR =
                IF summary.TotalImpressions > 0
                THEN FDiv(FromInt(summary.TotalClicks), FromInt(summary.TotalImpressions))
                ELSE @,
            !.AverageWinRate =
                IF summary.TotalRecords > 0
                THEN FDiv(FromInt(summary.TotalImpressions), FromInt(summary.TotalRecords))
                ELSE @,
            !.CampaignPerformance =
                [id \in DOMAIN perf |->
                    IF perf[id].Impressions > 0
                    THEN [perf[id] EXCEPT !.CTR =
                            FDiv(FromInt(perf[id].Clicks), FromInt(perf[id].Impressions))]
                    ELSE perf[id]]]

\* The derived metrics, computed after the last record.
Finalize(summary) ==
    LET perf == summary.CampaignPerformance
    IN  [summary EXCEPT
            !.AverageBidPrice =
                IF summary.TotalRecords > 0
                THEN FDiv(FromInt(summary.TotalBidAmount), FromInt(summary.TotalRecords))
                ELSE @,
            !.CTR =
                IF summary.TotalImpressions > 0
                THEN Times100(FDiv(FromInt(summary.TotalClicks), FromInt(summary.TotalImpressions)))
                ELSE @,
            !.AverageWinRate =
                IF summary.TotalRecords > 0
                THEN Times100(FDiv(FromInt(summary.TotalImpressions), FromInt(summary.TotalRecords)))
                ELSE @,
            !.CampaignPerformance =
                [id \in DOMAIN perf |->
                    IF perf[id].Impressions > 0
                    THEN [perf[id] EXCEPT !.CTR =
                            Times100(FDiv(FromInt(perf[id].Clicks), FromInt(perf[id].Impressions)))]
                    ELSE perf[id]]]

(***************************************************************************)
(* The service: results, errors, the result store.                         *)
(***************************************************************************)
Users == {"u1"}

FileIDs == {"f1", "f2"}

Procs == {"p1", "p2"}

\* an error value: the messages from the outermost wrapper inwards, and the
\* value formatted into the innermost one
Error(chain, arg) == [chain |-> chain, arg |-> arg]

NoErr == Error(<<>>, <<>>)

\* result.Summary before it is set (nil)
NoSummary == [nil |-> TRUE]

\* the LogAnalysisResult created at the start of ProcessLogFile
NewResult(fileID, userID, fileName, now) ==
    [ FileID |-> fileID, UserID |-> userID, FileName |-> fileName, ProcessedAt |-> now,
      Summary |-> NoSummary, Status |-> "processing", ErrorMessage |-> NoErr ]

NoResult == NewResult("", "", <<>>, 0)

\* filepath.Ext, scanning back from position i
RECURSIVE ExtFrom(_, _)
ExtFrom(name, i) ==
    IF i < 1 \/ name[i] = "/" THEN <<>>
    ELSE IF name[i] = "." THEN From(name, i)
    ELSE ExtFrom(name, i - 1)

\* Ext changed to report .csv for every name
ExtAlwaysCsv(name) == <<".","c","s","v">>

\* filepath.Ext
Ext(name) == ExtFrom(name, Len(name))

\* no file at the results path
NotStored == [absent |-> TRUE]

\* a results file that was truncated and not written to the end
PartialDoc == [partial |-> TRUE]

\* a byte that is no valid UTF-8 on its own (a Latin-1 letter), as a cell
\* of a CSV file may hold it, and the replacement character U+FFFD
InvalidByte == "0xE9"

Replacement == "U+FFFD"

\* a JSON string: the text coerced to valid UTF-8
JSONString(text) ==
    [i \in 1..Len(text) |-> IF text[i] = InvalidByte THEN Replacement ELSE text[i]]

\* byte order of two texts that JSONString maps to one
Precedes(a, b) ==
    \E i \in 1..Len(a) :
        /\ a[i] # b[i]
        /\ a[i] = InvalidByte
        /\ \A h \in 1..(i - 1) : a[h] = b[h]

\* A map as a JSON object, read back as an object: the members are written
\* in the byte order of the keys, each key as a JSON string, and of the
\* members that come to bear one name the reader keeps the last.
JSONMembers(m) ==
    LET names == {JSONString(k) : k \in DOMAIN m}
        last(name) ==
            LET keys == {k \in DOMAIN m : JSONString(k) = name}
            IN  CHOOSE k \in keys : \A j \in keys \ {k} : Precedes(j, k)
    IN  [name \in names |-> m[last(name)]]

\* Time.MarshalJSON: RFC 3339, the fraction without its trailing zeros
FormatRFC3339(t) ==
    LET ms   == t[7]
        frac == IF ms = 0 THEN <<>>
                ELSE IF ms % 100 = 0 THEN <<".", Digits[(ms \div 100) + 1]>>
                ELSE IF ms % 10 = 0
                THEN <<".", Digits[(ms \div 100) + 1], Digits[((ms \div 10) % 10) + 1]>>
                ELSE <<".", Digits[(ms \div 100) + 1], Digits[((ms \div 10) % 10) + 1],
                       Digits[(ms % 10) + 1]>>
    IN  Pad4(t[1]) \o <<"-">> \o Pad2(t[2]) \o <<"-">> \o Pad2(t[3]) \o <<"T">>
        \o Pad2(t[4]) \o <<":">> \o Pad2(t[5]) \o <<":">> \o Pad2(t[6]) \o frac \o <<"Z">>

JSONNumber(n) == n

\* a map[string]int
JSONObject(m) == [name \in DOMAIN JSONMembers(m) |-> JSONNumber(JSONMembers(m)[name])]

JSONCampaign(c) ==
    [ impressions |-> c.Impressions, clicks |-> c.Clicks, conversions |-> c.Conversions,
      spend |-> c.Spend, ctr |-> c.CTR ]

\* a map[string]CampaignMetrics
JSONCampaigns(m) == [name \in DOMAIN JSONMembers(m) |-> JSONCampaign(JSONMembers(m)[name])]

\* the summary as a JSON value, under its JSON field names; null for nil.
\* An int is written in full; a float64 is written so that it reads back
\* as itself.
JSONSummary(summary) ==
    IF summary = NoSummary THEN NoSummary
    ELSE [ totalRecords |-> summary.TotalRecords,
           totalImpressions |-> summary.TotalImpressions,
           totalClicks |-> summary.TotalClicks,
           totalConversions |-> summary.TotalConversions,
           totalBidAmount |-> summary.TotalBidAmount,
           totalWinCost |-> summary.TotalWinCost,
           ctr |-> summary.CTR,
           averageBidPrice |-> summary.AverageBidPrice,
           averageWinRate |-> summary.AverageWinRate,
           timeRange |-> << FormatRFC3339(summary.TimeRange[1]),
                            FormatRFC3339(summary.TimeRange[2]) >>,
           deviceBreakdown |-> JSONObject(summary.DeviceBreakdown),
           browserBreakdown |-> JSONObject(summary.BrowserBreakdown),
           osBreakdown |-> JSONObject(summary.OSBreakdown),
           geoBreakdown |-> JSONObject(summary.GeoBreakdown),
           hourlyBreakdown |-> JSONObject(summary.HourlyBreakdown),
           domainBreakdown |-> JSONObject(summary.DomainBreakdown),
           campaignPerformance |-> JSONCampaigns(summary.CampaignPerformance) ]

\* Marshal changed to write the file name for the file id
MarshalByName(result) ==
    LET doc == [ fileId |-> result.FileName, userId |-> result.UserID,
                 fileName |-> JSONString(result.FileName), processedAt |-> result.ProcessedAt,
                 summary |-> JSONSummary(result.Summary), status |-> result.Status ]
    IN  IF result.ErrorMessage = NoErr THEN doc
        ELSE doc @@ [errorMessage |-> result.ErrorMessage]

\* json.MarshalIndent(result): the document, under its JSON field names;
\* errorMessage is left out when empty (omitempty).  The instant of
\* processedAt is written in full; the ids and the status are ASCII text.
Marshal(result) ==
    LET doc == [ fileId |-> result.FileID, userId |-> result.UserID,
                 fileName |-> JSONString(result.FileName), processedAt |-> result.ProcessedAt,
                 summary |-> JSONSummary(result.Summary), status |-> result.Status ]
    IN  IF result.ErrorMessage = NoErr THEN doc
        ELSE doc @@ [errorMessage |-> result.ErrorMessage]

\* a JSON integer read into an interface{}: a float64
ReadNumber(n) == FromInt(n)

ReadCampaign(c) ==
    [ impressions |-> ReadNumber(c.impressions), clicks |-> ReadNumber(c.clicks),
      conversions |-> ReadNumber(c.conversions), spend |-> c.spend, ctr |-> c.ctr ]

ReadObject(o) == [name \in DOMAIN o |-> ReadNumber(o[name])]

ReadCampaigns(o) == [name \in DOMAIN o |-> ReadCampaign(o[name])]

\* the summary of a document read into an interface{}: a map by JSON field
\* name whose numbers are float64 values; nil for null
ReadSummary(summary) ==
    IF summary = NoSummary THEN NoSummary
    ELSE [ summary EXCEPT
             !.totalRecords = ReadNumber(@),
             !.totalImpressions = ReadNumber(@),
             !.totalClicks = ReadNumber(@),
             !.totalConversions = ReadNumber(@),
             !.deviceBreakdown = ReadObject(@),
             !.browserBreakdown = ReadObject(@),
             !.osBreakdown = ReadObject(@),
             !.geoBreakdown = ReadObject(@),
             !.hourlyBreakdown = ReadObject(@),
             !.domainBreakdown = ReadObject(@),
             !.campaignPerformance = ReadCampaigns(@) ]

\* json.Unmarshal(data, &result) of a whole document
Unmarshal(doc) ==
    [ FileID |-> doc.fileId, UserID |-> doc.userId, FileName |-> doc.fileName,
      ProcessedAt |-> doc.processedAt, Summary |-> ReadSummary(doc.summary),
      Status |-> doc.status,
      ErrorMessage |-> IF "errorMessage" \in DOMAIN doc THEN doc.errorMessage ELSE NoErr ]

\* Key changed to name one results file for all the files of a user
KeySameFile(userID, fileID) == <<userID, "f1">>

\* the results file: reports/<userID>/<fileID>_analysis.json
Key(userID, fileID) == <<userID, fileID>>

(***************************************************************************)
(* Input files.  An uploaded file is its name, its header record and its   *)
(* lines after the header; a line is a record (its cells) or blank (<<>>). *)
(* The lines of a file are fixed the first time a reader reaches them:     *)
(* `closed` says that the end of the file has been fixed too.              *)
(***************************************************************************)
NoFile == [exists |-> FALSE, name |-> <<>>, header |-> <<>>, lines |-> <<>>, closed |-> TRUE]

NewFile(name, header) ==
    [exists |-> TRUE, name |-> name, header |-> header, lines |-> <<>>, closed |-> FALSE]

\* a file that is read to its end as it stands
WholeFile(name, header, lines) ==
    [exists |-> TRUE, name |-> name, header |-> header, lines |-> lines, closed |-> TRUE]

NameCsv == <<"a",".","c","s","v">>

NameJson == <<"a",".","j","s","o","n">>

NameUpperCsv == <<"a",".","C","S","V">>

DotCsv == <<".","c","s","v">>

\* "2024-07-01 10:00:00"
T_10h ==
    <<"2","0","2","4","-","0","7","-","0","1"," ","1","0",":","0","0",":","0","0">>

\* "2024-07-01 11:00:00.000"
T_11h_ms ==
    <<"2","0","2","4","-","0","7","-","0","1"," ","1","1",":","0","0",":","0","0",".","0","0","0">>

\* "2024-07-02 9:30:00"
T_next ==
    <<"2","0","2","4","-","0","7","-","0","2"," ","9",":","3","0",":","0","0">>

\* "1969-12-31 23:00:00"
T_old ==
    <<"1","9","6","9","-","1","2","-","3","1"," ","2","3",":","0","0",":","0","0">>

\* "9999-06-01 00:00:00"
T_far ==
    <<"9","9","9","9","-","0","6","-","0","1"," ","0","0",":","0","0",":","0","0">>

\* "0001-01-01 00:00:00"
T_zero ==
    <<"0","0","0","1","-","0","1","-","0","1"," ","0","0",":","0","0",":","0","0">>

\* "2024-07-01T10:00:00Z"
T_iso ==
    <<"2","0","2","4","-","0","7","-","0","1","T","1","0",":","0","0",":","0","0","Z">>

\* A row by column: the first data row of the specification's example, with
\* the amounts scaled to the int range of the model.
BaseRow ==
    (ACCOUNT_ID :> <<"a","1">>) @@ (AUCTION_ID :> <<"x","1">>)
    @@ (BID_PRICE_MICROS_USD :> <<"5">>) @@ (BID_TIME :> T_10h)
    @@ (CAMPAIGN_ID :> <<"c","1">>) @@ (CLEARING_PRICE_MICROS_USD :> <<"4">>)
    @@ (CLICKS :> <<"1">>) @@ (CONVERSIONS :> <<"0">>)
    @@ (CREATIVE_ID :> <<"c","r","1">>) @@ (DOMAIN_ :> <<"e",".","c","o","m">>)
    @@ (GEO_COUNTRY :> <<"U","S">>) @@ (GEO_CITY :> <<"N","Y">>)
    @@ (PLATFORM_DEVICE_TYPE :> <<"m","o","b">>) @@ (PLATFORM_BROWSER :> <<"c","h","r">>)
    @@ (PLATFORM_OS :> <<"i","o","s">>) @@ (WIN_COST_MICROS_USD :> <<"4">>)

\* the cells that replace one cell of BaseRow
Variations ==
    {<<BID_TIME, t>> : t \in {<<>>, T_iso, T_11h_ms, T_next, T_old, T_far, T_zero}}
    \cup {<<BID_PRICE_MICROS_USD, c>> : c \in {<<"x">>, <<"6">>, <<"9","9">>}}
    \cup {<<WIN_COST_MICROS_USD, c>> : c \in {<<>>, <<"-","9","9">>}}
    \cup {<<CLICKS, c>> : c \in {<<"-","1">>, <<"4","1">>, <<"9","9">>, <<"x">>}}
    \cup {<<CONVERSIONS, c>> : c \in {<<>>, <<"4","1">>}}
    \cup {<<CAMPAIGN_ID, c>> : c \in {<<>>, <<"c","2">>}}
    \cup {<<PLATFORM_DEVICE_TYPE, c>> : c \in {<<>>, <<"d","s","k">>}}
    \cup {<<PLATFORM_BROWSER, <<"f","f">> >>, <<PLATFORM_OS, <<>> >>,
          <<GEO_COUNTRY, <<"C","A">> >>, <<DOMAIN_, <<>> >>,
          <<ACCOUNT_ID, <<"a","2">> >>}

RichRows == {BaseRow} \cup {[BaseRow EXCEPT ![v[1]] = v[2]] : v \in Variations}

LeanRows == {BaseRow, [BaseRow EXCEPT ![CLICKS] = <<"x">>]}

\* the cell under a header column that is not a required one
Filler == <<"t","o","p">>

\* For each header position the required column whose cell it holds: the
\* column the header cell names in any letter case, if no earlier header
\* cell names it too; <<>> for the other positions.
ColumnAt(header) ==
    LET up == [i \in 1..Len(header) |-> ToUpper(header[i])]
    IN  [i \in 1..Len(header) |->
            IF up[i] \in Range(requiredCols) /\ \A j \in 1..(i - 1) : up[j] # up[i]
            THEN up[i] ELSE <<>>]

\* the record that holds `row` under a header with these columns
Layout(columns, row) ==
    [i \in 1..Len(columns) |-> IF columns[i] = <<>> THEN Filler ELSE row[columns[i]]]

\* The records a file with this header may hold: the rows laid out, a
\* record one cell short and a record one cell long.
Records(header, rows) ==
    LET columns == ColumnAt(header)
        base    == Layout(columns, BaseRow)
    IN  {Layout(columns, r) : r \in rows}
        \cup {SubSeq(base, 1, Len(base) - 1), base \o <<Filler>>}

IsBlank(line) == line = <<>>

DataRows(lines) == SelectSeq(lines, LAMBDA l : ~IsBlank(l))

(***************************************************************************)
(* csv.Reader.Read on the lines after the header.                          *)
(***************************************************************************)
\* the first position from pos on that holds a record
RECURSIVE SkipBlank(_, _)
SkipBlank(lines, pos) ==
    IF pos <= Len(lines) /\ IsBlank(lines[pos]) THEN SkipBlank(lines, pos + 1) ELSE pos

\* What one Read may return at position pos: the next record past any blank
\* lines, or the end of the file.  Where the file is not fixed yet, the
\* lines read are fixed by the read (at most MaxRows records; a blank line
\* only right after the header).
ReadOutcomes(file, pos, records) ==
    LET i == SkipBlank(file.lines, pos)
        out(lines, closed, eof) ==
            [ lines |-> lines, closed |-> closed, eof |-> eof,
              record |-> IF eof THEN <<>> ELSE lines[Len(lines)],
              pos |-> Len(lines) + 1 ]
    IN  IF i <= Len(file.lines)
        THEN {[ lines |-> file.lines, closed |-> file.closed, eof |-> FALSE,
                record |-> file.lines[i], pos |-> i + 1 ]}
        ELSE IF file.closed THEN {out(file.lines, TRUE, TRUE)}
        ELSE {out(file.lines, TRUE, TRUE)}
             \cup (IF file.lines = <<>> THEN {out(<< <<>> >>, TRUE, TRUE)} ELSE {})
             \cup (IF Len(DataRows(file.lines)) < MaxRows
                   THEN {out(file.lines \o <<r>>, FALSE, FALSE) : r \in records}
                        \cup (IF file.lines = <<>>
                              THEN {out(<< <<>>, r >>, FALSE, FALSE) : r \in records}
                              ELSE {})
                   ELSE {})

(***************************************************************************)
(* Headers.                                                                *)
(***************************************************************************)
LowerChar(c) ==
    IF \E i \in 1..26 : UpperLetters[i] = c
    THEN LowerLetters[CHOOSE i \in 1..26 : UpperLetters[i] = c]
    ELSE c

ToLower(s) == [i \in 1..Len(s) |-> LowerChar(s[i])]

\* first letter upper case, the rest lower case
Capitalized(s) == [i \in 1..Len(s) |-> IF i = 1 THEN UpperChar(s[i]) ELSE LowerChar(s[i])]

Reversed(s) == [i \in 1..Len(s) |-> s[Len(s) + 1 - i]]

Rotated(s, k) == [i \in 1..Len(s) |-> s[((i + k - 1) % Len(s)) + 1]]

Without(s, k) == SubSeq(s, 1, k - 1) \o SubSeq(s, k + 1, Len(s))

AD_POSITION == <<"A","D","_","P","O","S","I","T","I","O","N">>

\* the required columns in three orders and three letter cases, and with
\* columns the parser does not need
FullHeaders ==
    LET orders == {requiredCols, Reversed(requiredCols), Rotated(requiredCols, 5)}
        lower(h) == [i \in 1..Len(h) |-> ToLower(h[i])]
        mixed(h) == [i \in 1..Len(h) |-> IF i % 2 = 0 THEN Capitalized(h[i]) ELSE h[i]]
    IN  orders \cup {lower(h) : h \in orders} \cup {mixed(h) : h \in orders}
        \cup {<<AD_POSITION>> \o mixed(requiredCols) \o <<ToLower(AD_POSITION)>>}

\* one required column removed
MissingHeaders ==
    {Without(h, k) : h \in {requiredCols, [i \in 1..Len(requiredCols) |-> ToLower(Reversed(requiredCols)[i])]},
                     k \in 1..Len(requiredCols)}

\* a column named twice: in two letter cases neither of which is the exact
\* name, in the exact name and another case, and twice in the exact name
RepeatedHeaders ==
    { [requiredCols EXCEPT ![7] = ToLower(CLICKS)] \o <<Capitalized(CLICKS)>>,
      <<ToLower(CLICKS)>> \o requiredCols,
      requiredCols \o <<CLICKS>> }

(***************************************************************************)
(* State.                                                                  *)
(***************************************************************************)
VARIABLES
    uploads,    \* the uploaded files, by file id
    reports,    \* the results files, by (user id, file id)
    inv,        \* the invocations of ProcessLogFile, by caller
    clock       \* time.Now(), counted in calls

vars == <<uploads, reports, inv, clock>>

\* a caller that is not inside ProcessLogFile; ret is what its last call
\* returned
\* cancelled: the context of the call is done; checked: the call follows an
\* IsLogFileProcessed that returned true; late: the call of the file
\* storage began after a DeleteFile of its key had returned nil; path: the
\* directory of the entry that findFileByID found
Idle(ret) ==
    [ pc |-> "idle", fileID |-> "", userID |-> "", result |-> NoResult,
      colMap |-> EmptyMap, summary |-> NoSummary, pos |-> 1, ret |-> ret,
      cancelled |-> FALSE, checked |-> FALSE, late |-> FALSE, path |-> "" ]

NoRet ==
    [ returned |-> FALSE, op |-> "", result |-> NoResult, err |-> NoErr,
      parsed |-> FALSE, rows |-> 0 ]

\* ProcessLogFile returns (result, err); `rows` is the number of records it
\* had aggregated and `parsed` whether the parser returned a summary
Return(result, err, parsed, rows) ==
    Idle([ returned |-> TRUE, op |-> "ProcessLogFile", result |-> result, err |-> err,
           parsed |-> parsed, rows |-> rows ])

\* GetAnalysisResult returns (result, err)
Loaded(result, err) ==
    Idle([ returned |-> TRUE, op |-> "GetAnalysisResult", result |-> result, err |-> err,
           parsed |-> FALSE, rows |-> 0 ])

TypeOK ==
    /\ DOMAIN uploads = FileIDs
    /\ DOMAIN reports = Users \X FileIDs
    /\ DOMAIN inv = Procs
    /\ clock \in 0..MaxCalls
    /\ \A p \in Procs :
          inv[p].pc \in {"idle", "unprocessed", "header", "rows", "store", "write", "processed", "read",
                         "remove", "open"}

InitCommon ==
    /\ reports = [k \in Users \X FileIDs |-> NotStored]
    /\ inv = [p \in Procs |-> Idle(NoRet)]


\* one file with the canonical header, and a file id with no file; time
\* for one call
Init ==
    /\ InitCommon
    /\ clock = MaxCalls - 1
    /\ uploads = [f \in FileIDs |-> IF f = "f1" THEN NewFile(NameCsv, requiredCols) ELSE NoFile]

\* one file with any of the headers, and a file that is not named .csv
InitHeader ==
    /\ InitCommon
    /\ clock = 0
    /\ \E h \in FullHeaders \cup MissingHeaders \cup RepeatedHeaders \cup {<<>>} :
          uploads = [f \in FileIDs |->
                        IF f = "f1" THEN NewFile(NameCsv, h) ELSE NewFile(NameJson, requiredCols)]

(***************************************************************************)
(* LogProcessorService.ProcessLogFile.                                     *)
(***************************************************************************)
\* IsLogFileProcessed: whether the results file exists
IsLogFileProcessed(fileID, userID) == reports[Key(userID, fileID)] # NotStored

\* result with Status "error" and the message
Failed(result, message) == [result EXCEPT !.Status = "error", !.ErrorMessage = message]

\* Entry: the result is created, the file opened and its extension checked.
ProcessLogFile(p, fileID, userID) ==
    LET file   == uploads[fileID]
        result == NewResult(fileID, userID, file.name, clock + 1)
        ext    == Ext(file.name)
    IN  /\ \/ inv[p].pc = "idle"
           \/ inv[p].pc = "unprocessed" /\ inv[p].fileID = fileID /\ inv[p].userID = userID
        /\ clock < MaxCalls
        /\ clock' = clock + 1
        /\ inv' = [inv EXCEPT ![p] =
              IF ~file.exists
              THEN Return(Failed(result, Error(<<"Failed to open file">>, <<>>)),
                          Error(<<"failed to open file">>, <<>>), FALSE, 0)
              ELSE IF ext # DotCsv
              THEN Return(Failed(result, Error(<<"Unsupported file format. Only CSV files are supported.">>, <<>>)),
                          Error(<<"unsupported file format">>, ext), FALSE, 0)
              ELSE [Idle(NoRet) EXCEPT !.pc = "header", !.fileID = fileID,
                                       !.userID = userID, !.result = result]]
        /\ UNCHANGED <<uploads, reports>>

\* ParseFails changed to return the summary of the rows read so far
ParseFailsPartial(p, err, rows) ==
    Return([Failed(inv[p].result, Error(<<"Failed to parse file">> \o err.chain, err.arg))
               EXCEPT !.Summary = inv[p].summary],
           Error(<<"failed to parse file">> \o err.chain, err.arg), FALSE, rows)

\* ParseBeeswaxLog fails with err: ProcessLogFile returns the error result
ParseFails(p, err, rows) ==
    Return(Failed(inv[p].result, Error(<<"Failed to parse file">> \o err.chain, err.arg)),
           Error(<<"failed to parse file">> \o err.chain, err.arg), FALSE, rows)

\* ParseBeeswaxLog up to the record loop: the header is read, the columns
\* are resolved and the summary is initialised.
ReadHeader(p) ==
    LET header == uploads[inv[p].fileID].header
    IN  /\ inv[p].pc = "header"
        /\ \E r \in ResolveColumns(BuildColMap(header), 1) :
              inv' = [inv EXCEPT ![p] =
                  IF header = <<>>
                  THEN ParseFails(p, Error(<<"failed to read header", "EOF">>, <<>>), 0)
                  ELSE IF ~r.ok
                  THEN ParseFails(p, Error(<<"required column not found">>, r.col), 0)
                  ELSE [@ EXCEPT !.pc = "rows", !.colMap = r.colMap,
                                 !.summary = NewSummary, !.pos = 1]]
        /\ UNCHANGED <<uploads, reports, clock>>

\* the records read by invocation p so far
RecordsOf(p) == DataRows(SubSeq(uploads[inv[p].fileID].lines, 1, inv[p].pos - 1))

\* the number of records aggregated by invocation p so far
Aggregated(p) == Len(RecordsOf(p))

\* One turn of the record loop: csvReader.Read, then at the end of the file
\* the derived metrics and the completed result, for a record with another
\* number of fields than the header the reader's error, and otherwise the
\* aggregation of the record.
ReadRecord(p, rows) ==
    LET f    == inv[p].fileID
        file == uploads[f]
    IN  /\ inv[p].pc = "rows"
        /\ \E o \in ReadOutcomes(file, inv[p].pos, Records(file.header, rows)) :
              /\ uploads' = [uploads EXCEPT ![f].lines = o.lines, ![f].closed = o.closed]
              /\ inv' = [inv EXCEPT ![p] =
                    IF o.eof
                    THEN [@ EXCEPT !.pc = "store", !.pos = o.pos,
                                   !.summary = Finalize(@),
                                   !.result = [@ EXCEPT !.Status = "completed",
                                                        !.Summary = Finalize(inv[p].summary)]]
                    ELSE IF Len(o.record) # Len(file.header)
                    THEN ParseFails(p, Error(<<"error reading record", "wrong number of fields">>, <<>>),
                                    Aggregated(p))
                    ELSE [@ EXCEPT !.pos = o.pos,
                                   !.summary = AggregateRecord(@, inv[p].colMap, o.record)]]
        /\ UNCHANGED <<reports, clock>>

\* csvReader.Read fails on the input stream
ReadFails(p) ==
    /\ inv[p].pc = "rows"
    /\ inv' = [inv EXCEPT ![p] =
          ParseFails(p, Error(<<"error reading record", "read error">>, <<>>), Aggregated(p))]
    /\ UNCHANGED <<uploads, reports, clock>>

\* storeAnalysisResult up to the opening of the results file by
\* os.WriteFile.  The directory or the file may fail to be created (nothing
\* is written and ProcessLogFile returns the error); otherwise the file
\* exists from here on and is empty until the document is written.
Store(p) ==
    LET key    == Key(inv[p].userID, inv[p].fileID)
        result == inv[p].result
        rows   == Aggregated(p)
    IN  /\ inv[p].pc = "store"
        /\ \E outcome \in {"opened", "not created"} :
              /\ reports' = [reports EXCEPT ![key] =
                    IF outcome = "opened" THEN PartialDoc ELSE @]
              /\ inv' = [inv EXCEPT ![p] =
                    IF outcome = "opened"
                    THEN [@ EXCEPT !.pc = "write"]
                    ELSE Return(result, Error(<<"failed to store analysis result">>, <<>>), TRUE, rows)]
        /\ UNCHANGED <<uploads, clock>>

\* The write of os.WriteFile and the return of ProcessLogFile.  The write
\* may fail part way.  Where another call has written the same file since
\* this one opened it, the two writes share the file unsynchronised: the
\* file ends as this document or as a mixture of the two.
WriteResult(p) ==
    LET key    == Key(inv[p].userID, inv[p].fileID)
        result == inv[p].result
        rows   == Aggregated(p)
    IN  /\ inv[p].pc = "write"
        /\ \E outcome \in {"written", "write failed", "mixed"} :
              /\ outcome = "mixed" => reports[key] # PartialDoc
              /\ reports' = [reports EXCEPT ![key] =
                    IF outcome = "written" THEN Marshal(result) ELSE PartialDoc]
              /\ inv' = [inv EXCEPT ![p] =
                    IF outcome = "write failed"
                    THEN Return(result, Error(<<"failed to store analysis result">>, <<>>), TRUE, rows)
                    ELSE Return(result, NoErr, TRUE, rows)]
        /\ UNCHANGED <<uploads, clock>>

(***************************************************************************)
(* FileService.ProcessLogFile up to its call of the processor,             *)
(* LogProcessorService.GetAnalysisResult, and the cancellation of a        *)
(* call's context.                                                         *)
(***************************************************************************)
\* FileService.ProcessLogFile asks IsLogFileProcessed: if the results file
\* exists it goes on to GetAnalysisResult, otherwise to ProcessLogFile.
CheckProcessed(p, fileID, userID) ==
    /\ inv[p].pc = "idle"
    /\ inv' = [inv EXCEPT ![p] =
          [Idle(NoRet) EXCEPT !.fileID = fileID, !.userID = userID,
                              !.pc = IF IsLogFileProcessed(fileID, userID)
                                     THEN "processed" ELSE "unprocessed",
                              !.checked = IsLogFileProcessed(fileID, userID)]]
    /\ UNCHANGED <<uploads, reports, clock>>

\* GetAnalysisResult up to os.Stat: called directly, or by FileService
\* after IsLogFileProcessed returned true
GetAnalysisResult(p, fileID, userID) ==
    /\ \/ inv[p].pc = "idle"
       \/ inv[p].pc = "processed" /\ inv[p].fileID = fileID /\ inv[p].userID = userID
    /\ inv' = [inv EXCEPT ![p] =
          IF reports[Key(userID, fileID)] = NotStored
          THEN Loaded(NoResult, Error(<<"analysis result not found for file ID">>, fileID))
          ELSE [Idle(NoRet) EXCEPT !.pc = "read", !.fileID = fileID, !.userID = userID,
                                   !.checked = inv[p].checked]]
    /\ UNCHANGED <<uploads, reports, clock>>

\* GetAnalysisResult from os.ReadFile on: the document is read and parsed
ReadResult(p) ==
    LET doc == reports[Key(inv[p].userID, inv[p].fileID)]
    IN  /\ inv[p].pc = "read"
        /\ inv' = [inv EXCEPT ![p] =
              IF doc = NotStored
              THEN Loaded(NoResult, Error(<<"failed to read analysis result">>, <<>>))
              ELSE IF doc = PartialDoc
              THEN Loaded(NoResult, Error(<<"failed to parse analysis result">>, <<>>))
              ELSE Loaded(Unmarshal(doc), NoErr)]
        /\ UNCHANGED <<uploads, reports, clock>>

\* the context of a running call is cancelled
Cancel(p) ==
    /\ inv[p].pc \notin {"idle"}
    /\ ~inv[p].cancelled
    /\ inv' = [inv EXCEPT ![p].cancelled = TRUE]
    /\ UNCHANGED <<uploads, reports, clock>>

(***************************************************************************)
(* FileStorage.GetFile and DeleteFile.  The storage and the processor      *)
(* share the base directory "uploads": an uploaded file is the entry       *)
(* <id>_<name> of dsp_logs/<user> or temp/<user>, the results file of the  *)
(* processor the entry <id>_analysis.json of reports/<user>.               *)
(***************************************************************************)
NameAnalysis == <<"a","n","a","l","y","s","i","s",".","j","s","o","n">>

\* StoreFile's directory for an upload: dsp_logs for a name in .csv, temp
\* for the other names of the model (uploaded as application/json)
SubDir(name) == IF Ext(name) = DotCsv THEN "dsp_logs" ELSE "temp"

\* the entries of <dir>/<userID> whose name begins with <id>_
Entries(dir, id, userID) ==
    IF dir = "reports"
    THEN IF reports[Key(userID, id)] # NotStored THEN {NameAnalysis} ELSE {}
    ELSE IF uploads[id].exists /\ SubDir(uploads[id].name) = dir THEN {uploads[id].name} ELSE {}

\* findFileByID: the first entry with the prefix, the directories searched
\* in the order dsp_logs, reports, temp
findFileByID(id, userID) ==
    LET dirs  == <<"dsp_logs", "reports", "temp">>
        found == {i \in 1..3 : Entries(dirs[i], id, userID) # {}}
    IN  IF found = {} THEN [ok |-> FALSE, dir |-> "", name |-> <<>>]
        ELSE LET i == CHOOSE x \in found : \A y \in found : x <= y
             IN  [ok |-> TRUE, dir |-> dirs[i],
                  name |-> CHOOSE n \in Entries(dirs[i], id, userID) : TRUE]

\* a DeleteFile of the key has returned nil to a caller
Deleted(id, userID) ==
    \E r \in Procs :
        /\ inv[r].ret.op = "DeleteFile"
        /\ inv[r].ret.err = NoErr
        /\ inv[r].ret.result.FileID = id
        /\ inv[r].ret.result.UserID = userID

\* GetFile or DeleteFile returns: the file info (its id, user and name) and
\* the error
Answer(op, id, userID, name, err, late) ==
    Idle([ returned |-> TRUE, op |-> op,
           result |-> [NoResult EXCEPT !.FileID = id, !.UserID = userID, !.FileName = name],
           err |-> err, parsed |-> FALSE, rows |-> 0, late |-> late ])

\* GetFile or DeleteFile up to the return of findFileByID
FindFile(p, op, id, userID) ==
    LET found == findFileByID(id, userID)
        late  == Deleted(id, userID)
    IN  /\ inv[p].pc = "idle"
        /\ inv' = [inv EXCEPT ![p] =
              IF ~found.ok
              THEN Answer(op, id, userID, <<>>, Error(<<"file not found">>, <<>>), late)
              ELSE [Idle(NoRet) EXCEPT !.pc = IF op = "GetFile" THEN "open" ELSE "remove",
                                       !.fileID = id, !.userID = userID, !.late = late,
                                       !.path = found.dir]]
        /\ UNCHANGED <<uploads, reports, clock>>

GetFile(p, id, userID) == FindFile(p, "GetFile", id, userID)

DeleteFile(p, id, userID) == FindFile(p, "DeleteFile", id, userID)

\* GetFile from os.Open on
OpenFile(p) ==
    LET id      == inv[p].fileID
        entries == Entries(inv[p].path, id, inv[p].userID)
    IN  /\ inv[p].pc = "open"
        /\ inv' = [inv EXCEPT ![p] =
              IF entries = {}
              THEN Answer("GetFile", id, inv[p].userID, <<>>,
                          Error(<<"failed to open file">>, <<>>), inv[p].late)
              ELSE Answer("GetFile", id, inv[p].userID, CHOOSE n \in entries : TRUE,
                          NoErr, inv[p].late)]
        /\ UNCHANGED <<uploads, reports, clock>>

\* DeleteFile from os.Remove on.  A file that a reader holds open stays
\* readable to it: the upload keeps its lines and no longer exists.
RemoveFile(p) ==
    LET id      == inv[p].fileID
        entries == Entries(inv[p].path, id, inv[p].userID)
    IN  /\ inv[p].pc = "remove"
        /\ inv' = [inv EXCEPT ![p] =
              IF entries = {}
              THEN Answer("DeleteFile", id, inv[p].userID, <<>>,
                          Error(<<"failed to delete file">>, <<>>), inv[p].late)
              ELSE Answer("DeleteFile", id, inv[p].userID, CHOOSE n \in entries : TRUE,
                          NoErr, inv[p].late)]
        /\ uploads' = IF entries # {} /\ inv[p].path # "reports"
                      THEN [uploads EXCEPT ![id].exists = FALSE] ELSE uploads
        /\ reports' = IF entries # {} /\ inv[p].path = "reports"
                      THEN [reports EXCEPT ![Key(inv[p].userID, id)] = NotStored] ELSE reports
        /\ UNCHANGED clock

Callers == {"p1"}

Step(p, rows) ==
    \/ \E f \in FileIDs, u \in Users : ProcessLogFile(p, f, u)
    \/ ReadHeader(p)
    \/ ReadRecord(p, rows)
    \/ ReadFails(p)
    \/ Store(p)
    \/ WriteResult(p)

Next == \E p \in Callers : Step(p, RichRows)

NextLean == \E p \in Callers : Step(p, LeanRows)

Spec == Init /\ [][Next]_vars

SpecHeader == InitHeader /\ [][NextLean]_vars

(***************************************************************************)
(* The service with two callers: whole files, one of them with a cell that *)
(* is not valid UTF-8 and one with a count beyond the integers a float64   *)
(* holds exactly; the second file under a name that may not end in .csv.   *)
(***************************************************************************)
StoreRows ==
    [ plain |-> BaseRow,
      latin |-> [BaseRow EXCEPT ![DOMAIN_] = <<"c","a","f",InvalidByte>>],
      large |-> [BaseRow EXCEPT ![CLICKS] = <<"4","1">>] ]

StoreFiles ==
    LET rec(r) == Layout(ColumnAt(requiredCols), StoreRows[r])
    IN  { <<>>, <<rec("plain")>>, <<rec("latin")>>, <<rec("large")>>,
          <<rec("plain"), rec("latin")>> }

InitStore ==
    /\ InitCommon
    /\ clock = 0
    /\ \E lines \in StoreFiles, name \in {NameCsv, NameJson, NameUpperCsv} :
          uploads = [f \in FileIDs |->
                        IF f = "f1" THEN WholeFile(NameCsv, requiredCols, lines)
                        ELSE WholeFile(name, requiredCols,
                                       <<Layout(ColumnAt(requiredCols), BaseRow)>>)]

NextStore ==
    \E p \in Procs :
        \/ Step(p, LeanRows)
        \/ \E f \in FileIDs, u \in Users : CheckProcessed(p, f, u)
        \/ \E f \in FileIDs, u \in Users : GetAnalysisResult(p, f, u)
        \/ ReadResult(p)
        \/ Cancel(p)

SpecStore == InitStore /\ [][NextStore]_vars

(***************************************************************************)
(* Two callers of ProcessLogFile, each with a file of its own.             *)
(***************************************************************************)
Own == [p \in Procs |-> IF p = "p1" THEN "f1" ELSE "f2"]

InitApart ==
    /\ InitCommon
    /\ clock = 0
    /\ \E lines \in [FileIDs -> StoreFiles] :
          uploads = [f \in FileIDs |-> WholeFile(NameCsv, requiredCols, lines[f])]

NextApart ==
    \E p \in Procs :
        \/ \E u \in Users : ProcessLogFile(p, Own[p], u)
        \/ ReadHeader(p)
        \/ ReadRecord(p, LeanRows)
        \/ ReadFails(p)
        \/ Store(p)
        \/ WriteResult(p)

SpecApart == InitApart /\ [][NextApart]_vars

\* the sequences of at most n elements of S
SeqsUpTo(S, n) == UNION {[1..k -> S] : k \in 0..n}

(***************************************************************************)
(* The processor and the file storage on the shared directory.             *)
(***************************************************************************)
InitDelete ==
    /\ InitCommon
    /\ clock = 0
    /\ \E lines \in {<<>>, <<Layout(ColumnAt(requiredCols), BaseRow)>>} :
          uploads = [f \in FileIDs |->
                        IF f = "f1" THEN WholeFile(NameCsv, requiredCols, lines)
                        ELSE WholeFile(NameJson, requiredCols, lines)]

NextDelete ==
    \E p \in Procs :
        \/ Step(p, LeanRows)
        \/ \E f \in FileIDs, u \in Users : GetFile(p, f, u)
        \/ OpenFile(p)
        \/ \E f \in FileIDs, u \in Users : DeleteFile(p, f, u)
        \/ RemoveFile(p)

SpecDelete == InitDelete /\ [][NextDelete]_vars

(***************************************************************************)
(* Two runs over one file: both callers process f1, a whole file whose     *)
(* header is the canonical one, names a column twice, or lacks a column.   *)
(***************************************************************************)
TwiceHeaders == RepeatedHeaders \cup {requiredCols, Without(requiredCols, 7)}

InitTwice ==
    /\ InitCommon
    /\ clock = 0
    /\ \E h \in TwiceHeaders :
          \E lines \in SeqsUpTo({Layout(ColumnAt(h), r) : r \in LeanRows}, MaxRows) :
              uploads = [f \in FileIDs |->
                            IF f = "f1" THEN WholeFile(NameCsv, h, lines) ELSE NoFile]

NextTwice ==
    \E p \in Procs :
        \/ \E u \in Users : ProcessLogFile(p, "f1", u)
        \/ ReadHeader(p)
        \/ ReadRecord(p, LeanRows)
        \/ ReadFails(p)
        \/ Store(p)
        \/ WriteResult(p)

SpecTwice == InitTwice /\ [][NextTwice]_vars

(***************************************************************************)
(* Calls of the service one after the other: a caller takes a step only    *)
(* while no other caller is inside a call.                                 *)
(***************************************************************************)
InTurn(p) == \A q \in Procs \ {p} : inv[q].pc = "idle"

NextService ==
    \E p \in Procs :
        \/ \E f \in FileIDs, u \in Users : InTurn(p) /\ CheckProcessed(p, f, u)
        \/ \E f \in FileIDs, u \in Users : InTurn(p) /\ ProcessLogFile(p, f, u)
        \/ InTurn(p) /\ ReadHeader(p)
        \/ InTurn(p) /\ ReadRecord(p, LeanRows)
        \/ InTurn(p) /\ ReadFails(p)
        \/ InTurn(p) /\ Store(p)
        \/ InTurn(p) /\ WriteResult(p)
        \/ \E f \in FileIDs, u \in Users : InTurn(p) /\ GetAnalysisResult(p, f, u)
        \/ InTurn(p) /\ ReadResult(p)

SpecService == InitStore /\ [][NextService]_vars

(***************************************************************************)
(* Whole files for the derived metrics: up to MaxRows + 1 rows, so that a  *)
(* quotient by 3 is among the cases.                                       *)
(***************************************************************************)
MetricRows ==
    { BaseRow,
      [BaseRow EXCEPT ![CLICKS] = <<"0">>],
      [BaseRow EXCEPT ![CLICKS] = <<"0">>, ![CAMPAIGN_ID] = <<"c","2">>,
                      ![BID_PRICE_MICROS_USD] = <<"8">>],
      [BaseRow EXCEPT ![CLICKS] = <<"4","1">>],
      [BaseRow EXCEPT ![CAMPAIGN_ID] = <<>>] }

InitMetrics ==
    /\ InitCommon
    /\ clock = MaxCalls - 1
    /\ \E lines \in SeqsUpTo({Layout(ColumnAt(requiredCols), r) : r \in MetricRows}, MaxRows + 1) :
          uploads = [f \in FileIDs |->
                        IF f = "f1" THEN WholeFile(NameCsv, requiredCols, lines) ELSE NoFile]

SpecMetrics == InitMetrics /\ [][NextLean]_vars

(***************************************************************************)
(* Properties.                                                             *)
(***************************************************************************)
\* invocation p is inside the record loop or past it
InLoop(p) == inv[p].pc \in {"rows", "store"}

Summary(p) == inv[p].summary

FileOf(p) == uploads[inv[p].fileID]

\* the cell of a record under a column of the canonical header
CellOf(p, record, col) == getValueSafely(inv[p].colMap, record, col)

RECURSIVE SumTo(_, _)
SumTo(f, n) == IF n = 0 THEN 0 ELSE f[n] + SumTo(f, n - 1)

Sum(f) == SumTo(f, Len(f))

\* the decoded values of the records read by p
Decoded(p) == [i \in 1..Aggregated(p) |-> DecodeRecord(inv[p].colMap, RecordsOf(p)[i])]

\* text that is not a number: some character is neither a digit nor a
\* leading sign
IsNonNumeric(cell) ==
    \E i \in 1..Len(cell) : ~IsDigit(cell[i]) /\ ~(i = 1 /\ Len(cell) > 1 /\ cell[i] \in {"+", "-"})

\* C1: whenever the parser holds or returns a summary, TotalRecords and
\* TotalImpressions both equal the number of data rows read so far, and at
\* the end of the file the number of data rows of the input.
C1_CountsEqualRows ==
    \A p \in Procs :
        InLoop(p) =>
            /\ Summary(p).TotalRecords = Aggregated(p)
            /\ Summary(p).TotalImpressions = Aggregated(p)
            /\ inv[p].pc = "store" =>
                  /\ FileOf(p).closed
                  /\ inv[p].result.Summary.TotalRecords = Len(DataRows(FileOf(p).lines))
                  /\ inv[p].result.Summary.TotalImpressions = Len(DataRows(FileOf(p).lines))

\* C1 witness: a summary is returned for two data rows, one of which has a
\* cell that fails to parse
C1_Witness ==
    \E p \in Procs :
        /\ inv[p].pc = "store"
        /\ Summary(p).TotalRecords = 2
        /\ \E i \in 1..2 : IsNonNumeric(CellOf(p, RecordsOf(p)[i], CLICKS))

\* the record at which the last call of p stopped with the reader's
\* field-count error, or <<>>
RejectedRecord(p) ==
    LET r    == inv[p].ret
        file == uploads[r.result.FileID]
        rows == DataRows(file.lines)
    IN  IF /\ r.returned
           /\ r.err = Error(<<"failed to parse file", "error reading record",
                              "wrong number of fields">>, <<>>)
           /\ r.rows < Len(rows)
        THEN rows[r.rows + 1] ELSE <<>>

HeaderOfLast(p) == uploads[inv[p].ret.result.FileID].header

\* C2 (as claimed): a data row with fewer cells than the header never makes
\* the parser return an error.
C2_ShortRowNeverAnError ==
    \A p \in Procs :
        ~(RejectedRecord(p) # <<>> /\ Len(RejectedRecord(p)) < Len(HeaderOfLast(p)))

\* the record aggregated by a step of p, or <<>> when the step aggregated none
StepRecord(p) ==
    IF inv[p].pc = "rows" /\ inv'[p].pc = "rows" /\ inv'[p].pos > inv[p].pos
    THEN uploads'[inv[p].fileID].lines[inv'[p].pos - 1] ELSE <<>>

\* the record a step of p reads, or <<>> when there is none to read
NextRecord(p) ==
    LET lines == uploads'[inv[p].fileID].lines
        i     == SkipBlank(lines, inv[p].pos)
    IN  IF inv[p].pc = "rows" /\ inv'[p] # inv[p] /\ i <= Len(lines) THEN lines[i] ELSE <<>>

\* the positions of a record that hold the cell of a column
ReplaceCell(p, record, col, cell) == [record EXCEPT ![inv[p].colMap[col] + 1] = cell]

\* C3: a step of the record loop that reads a row of the header's length
\* whose BID_PRICE_MICROS_USD is not a number returns no parse error for
\* it, adds 1 to TotalRecords and TotalImpressions and nothing to
\* TotalBidAmount, and leaves the summary that the same row with the bid
\* price "0" leaves.
C3_NonNumericBidPrice ==
    [][\A p \in Procs :
          LET rec == NextRecord(p)
          IN  (/\ rec # <<>>
               /\ Len(rec) = Len(FileOf(p).header)
               /\ IsNonNumeric(CellOf(p, rec, BID_PRICE_MICROS_USD)))
              => \/ /\ inv'[p].pc = "rows"
                    /\ StepRecord(p) = rec
                    /\ inv'[p].summary.TotalRecords = Summary(p).TotalRecords + 1
                    /\ inv'[p].summary.TotalImpressions = Summary(p).TotalImpressions + 1
                    /\ inv'[p].summary.TotalBidAmount = Summary(p).TotalBidAmount
                    /\ inv'[p].summary =
                          AggregateRecord(Summary(p), inv[p].colMap,
                                          ReplaceCell(p, rec, BID_PRICE_MICROS_USD, <<"0">>))
                 \/ /\ inv'[p].pc = "idle"
                    /\ inv'[p].ret.err = Error(<<"failed to parse file", "error reading record",
                                                 "read error">>, <<>>)]_vars

\* C3 witness: a row with a non-numeric bid price has been aggregated
C3_Witness ==
    \E p \in Procs :
        /\ inv[p].pc = "rows"
        /\ Aggregated(p) = 2
        /\ IsNonNumeric(CellOf(p, RecordsOf(p)[2], BID_PRICE_MICROS_USD))
        /\ Summary(p).TotalRecords = 2
        /\ Summary(p).TotalBidAmount = 5

\* the four integer columns
IntegerCols == {BID_PRICE_MICROS_USD, WIN_COST_MICROS_USD, CLICKS, CONVERSIONS}

\* the decoded value of an integer column
DecodedInt(d, col) ==
    CASE col = BID_PRICE_MICROS_USD -> d.bidPrice
      [] col = WIN_COST_MICROS_USD -> d.winCost
      [] col = CLICKS -> d.clicks
      [] col = CONVERSIONS -> d.conversions

\* C4 (as claimed): for every record aggregated, each of the four integer
\* cells whose parse reports a failure is decoded as 0.
C4_ParseFailureDecodesZero ==
    \A p \in Procs :
        InLoop(p) =>
            \A i \in 1..Aggregated(p) : \A col \in IntegerCols :
                ParseInt(CellOf(p, RecordsOf(p)[i], col)).err # ""
                    => DecodedInt(Decoded(p)[i], col) = 0

\* C5 (as claimed): the decoded clicks and conversions of every record are
\* non-negative, and so are the totals and every campaign's counts.
C5_CountsNonNegative ==
    \A p \in Procs :
        InLoop(p) =>
            /\ \A i \in 1..Aggregated(p) : Decoded(p)[i].clicks >= 0 /\ Decoded(p)[i].conversions >= 0
            /\ Summary(p).TotalClicks >= 0
            /\ Summary(p).TotalConversions >= 0
            /\ \A id \in DOMAIN Summary(p).CampaignPerformance :
                  /\ Summary(p).CampaignPerformance[id].Clicks >= 0
                  /\ Summary(p).CampaignPerformance[id].Conversions >= 0

\* the header names the column, in some letter case
Names(header, col) == \E i \in 1..Len(header) : ToUpper(header[i]) = col

NamesAll(header) == \A col \in Range(requiredCols) : Names(header, col)

\* the error of the last call of p is that of a required column not found
ColumnNotFound(p) ==
    /\ inv[p].ret.returned
    /\ inv[p].ret.err.chain = <<"failed to parse file", "required column not found">>

\* the last call of p invoked the parser
ParserRan(p) ==
    /\ inv[p].ret.returned
    /\ \/ inv[p].ret.parsed
       \/ inv[p].ret.err.chain # <<>> /\ inv[p].ret.err.chain[1] = "failed to parse file"

\* C6: a header that names the 16 required columns, in any order and letter
\* case, is resolved: every canonical name is mapped to a position whose
\* header cell is that name in some letter case.  A header that lacks a
\* required column is never resolved, and the error names a column the
\* header lacks: the removed one when one column was removed.
C6_HeaderResolution ==
    \A p \in Procs :
        /\ InLoop(p) =>
              /\ NamesAll(FileOf(p).header)
              /\ \A col \in Range(requiredCols) :
                    /\ col \in DOMAIN inv[p].colMap
                    /\ inv[p].colMap[col] \in 0..(Len(FileOf(p).header) - 1)
                    /\ ToUpper(FileOf(p).header[inv[p].colMap[col] + 1]) = col
        /\ ColumnNotFound(p) =>
              /\ inv[p].ret.err.arg \in Range(requiredCols)
              /\ ~Names(HeaderOfLast(p), inv[p].ret.err.arg)
        /\ (ParserRan(p) /\ ~NamesAll(HeaderOfLast(p)) /\ HeaderOfLast(p) # <<>>)
              => ColumnNotFound(p)

\* C6 witness: a header in another order and letter case than the canonical
\* one has been resolved
C6_Witness ==
    \E p \in Procs :
        /\ inv[p].pc = "rows"
        /\ CLICKS \notin Range(FileOf(p).header)
        /\ inv[p].colMap[CLICKS] = 9
        /\ inv[p].colMap[WIN_COST_MICROS_USD] = 0

\* C7: a call whose file's header lacks a required column returns from the
\* header stage with Status "error" and a message that holds the missing
\* column's name; it reads no data row and leaves the uploaded files and
\* every results file as they were.
C7_MissingColumnAborts ==
    [][\A p \in Procs :
          (/\ inv[p].pc = "header"
           /\ inv'[p] # inv[p]
           /\ FileOf(p).header # <<>>
           /\ ~NamesAll(FileOf(p).header))
          => /\ inv'[p].pc = "idle"
             /\ inv'[p].ret.result.Status = "error"
             /\ inv'[p].ret.result.ErrorMessage.chain = <<"Failed to parse file", "required column not found">>
             /\ ~Names(FileOf(p).header, inv'[p].ret.result.ErrorMessage.arg)
             /\ inv'[p].ret.err.arg = inv'[p].ret.result.ErrorMessage.arg
             /\ inv'[p].ret.rows = 0
             /\ ~inv'[p].ret.parsed
             /\ uploads' = uploads
             /\ reports' = reports
             /\ \A f \in FileIDs, u \in Users :
                   IsLogFileProcessed(f, u)' = IsLogFileProcessed(f, u)]_vars

\* C7 witness: a call has returned the error for the missing CLICKS column
C7_Witness ==
    \E p \in Procs :
        /\ ColumnNotFound(p)
        /\ inv[p].ret.err.arg = CLICKS
        /\ inv[p].ret.result.Status = "error"
        /\ reports[Key("u1", "f1")] = NotStored

\* the sums of the decoded values of the records read by p
SumOf(p, field(_)) == Sum([i \in 1..Aggregated(p) |-> field(Decoded(p)[i])])

BidPriceOf(d) == d.bidPrice

WinCostOf(d) == d.winCost

ClicksOf(d) == d.clicks

ConversionsOf(d) == d.conversions

\* every integer cell of every record read by p parses without error
AllParsed(p) ==
    \A i \in 1..Aggregated(p) : \A col \in IntegerCols :
        ParseInt(CellOf(p, RecordsOf(p)[i], col)).err = ""

RowOrders(n) == {f \in [1..n -> 1..n] : \A i, j \in 1..n : f[i] = f[j] => i = j}

\* the summary of the records, aggregated in order from the new summary
RECURSIVE Fold(_, _, _)
Fold(summary, colMap, records) ==
    IF records = <<>> THEN summary
    ELSE Fold(AggregateRecord(summary, colMap, Head(records)), colMap, Tail(records))

\* a summary without its time range
Untimed(summary) == [summary EXCEPT !.TimeRange = <<>>]

BidTimes(p) == {Decoded(p)[i].bidTime : i \in 1..Aggregated(p)} \ {ZeroTime}

Earliest(times) == CHOOSE t \in times : \A u \in times : t = u \/ Before(t, u)

Latest(times) == CHOOSE t \in times : \A u \in times : t = u \/ After(t, u)

\* C10 (as claimed): once a row with a parseable, non-zero bid time has been
\* read, the time range is the earliest and the latest of the bid times read.
C10_TimeRangeIsMinMax ==
    \A p \in Procs :
        (InLoop(p) /\ BidTimes(p) # {}) =>
            /\ Summary(p).TimeRange[1] = Earliest(BidTimes(p))
            /\ Summary(p).TimeRange[2] = Latest(BidTimes(p))


\* the five categorical breakdowns: the column and the map of the summary
Categorical(summary) ==
    { <<PLATFORM_DEVICE_TYPE, summary.DeviceBreakdown>>,
      <<PLATFORM_BROWSER, summary.BrowserBreakdown>>,
      <<PLATFORM_OS, summary.OSBreakdown>>,
      <<GEO_COUNTRY, summary.GeoBreakdown>>,
      <<DOMAIN_, summary.DomainBreakdown>> }

\* the records read by p whose cell under the column is this value
RowsWith(p, col, value) ==
    {i \in 1..Aggregated(p) : CellOf(p, RecordsOf(p)[i], col) = value}

\* C11: in every state of the record loop and after it, in each of the five
\* categorical breakdowns the empty string is no key, every key has a count
\* of at least 1, and the count of a key is the number of rows read so far
\* whose cell under the column is exactly that key; a value read is a key.
C11_BreakdownCounts ==
    \A p \in Procs :
        InLoop(p) =>
            \A b \in Categorical(Summary(p)) :
                /\ <<>> \notin DOMAIN b[2]
                /\ \A k \in DOMAIN b[2] :
                      /\ b[2][k] >= 1
                      /\ b[2][k] = Cardinality(RowsWith(p, b[1], k))
                /\ \A i \in 1..Aggregated(p) :
                      LET cell == CellOf(p, RecordsOf(p)[i], b[1])
                      IN  cell # <<>> => cell \in DOMAIN b[2]

\* C11 witness: two rows have been read that name the same domain, one of
\* them with an empty device type
C11_Witness ==
    \E p \in Procs :
        /\ InLoop(p)
        /\ Aggregated(p) = 2
        /\ \E k \in DOMAIN Summary(p).DomainBreakdown : Summary(p).DomainBreakdown[k] = 2
        /\ RowsWith(p, PLATFORM_DEVICE_TYPE, <<>>) # {}
        /\ Cardinality(DOMAIN Summary(p).DeviceBreakdown) = 1


\* the campaign ids of the records read by p, the empty one left out
CampaignIDs(p) ==
    {CellOf(p, RecordsOf(p)[i], CAMPAIGN_ID) : i \in 1..Aggregated(p)} \ {<<>>}

\* the sum of a decoded value over the records read by p of campaign c
CampaignSum(p, c, field(_)) ==
    Sum([i \in 1..Aggregated(p) |->
            IF CellOf(p, RecordsOf(p)[i], CAMPAIGN_ID) = c THEN field(Decoded(p)[i]) ELSE 0])

CampaignsAgree(p, perf) ==
    /\ DOMAIN perf = CampaignIDs(p)
    /\ \A c \in DOMAIN perf :
          /\ perf[c].Impressions = Cardinality(RowsWith(p, CAMPAIGN_ID, c))
          /\ perf[c].Clicks = Wrap(CampaignSum(p, c, ClicksOf))
          /\ perf[c].Conversions = Wrap(CampaignSum(p, c, ConversionsOf))
          /\ perf[c].Spend = CampaignSum(p, c, WinCostOf)

Returned(p) == inv[p].result.Summary

\* C13 (as claimed): in every returned summary, if TotalRecords is 0 the
\* three rates are 0, and otherwise AverageBidPrice * TotalRecords equals
\* TotalBidAmount and CTR * TotalImpressions equals TotalClicks * 100; for
\* every campaign CTR * Impressions equals Clicks * 100.  The products are
\* float64 products.
C13_MetricsMultiplyBack ==
    \A p \in Procs :
        inv[p].pc = "store" =>
            LET S == Returned(p)
            IN  /\ IF S.TotalRecords = 0
                   THEN /\ S.AverageBidPrice = ZeroRatio
                        /\ S.CTR = ZeroRatio
                        /\ S.AverageWinRate = ZeroRatio
                   ELSE /\ FMul(S.AverageBidPrice, FromInt(S.TotalRecords))
                              = FromInt(S.TotalBidAmount)
                        /\ FMul(S.CTR, FromInt(S.TotalImpressions))
                              = Times100(FromInt(S.TotalClicks))
                /\ \A c \in DOMAIN S.CampaignPerformance :
                      LET m == S.CampaignPerformance[c]
                      IN  IF m.Impressions = 0 THEN m.CTR = ZeroRatio
                          ELSE FMul(m.CTR, FromInt(m.Impressions)) = Times100(FromInt(m.Clicks))

Abs(x) == IF x < 0 THEN -x ELSE x

\* the float64 f times n is t, to within a relative error of
\* k * 2^(-FloatBits); in exact arithmetic
Near(f, n, t, k) ==
    LET s == IF f[2] < 0 THEN 2^(-f[2]) ELSE 1
        v == IF f[2] < 0 THEN f[1] ELSE f[1] * 2^f[2]
    IN  Abs(v * n - t * s) * 2^FloatBits <= k * Abs(t) * s

\* C13 (amended): in every returned summary, if TotalRecords is 0 the three
\* rates are 0; otherwise AverageBidPrice * TotalRecords is TotalBidAmount
\* to within 3 roundings of float64, and CTR * TotalImpressions is
\* TotalClicks * 100 to within 4; for every campaign CTR * Impressions is
\* Clicks * 100 to within 4 roundings.
C13_MetricsWithinRounding ==
    \A p \in Procs :
        inv[p].pc = "store" =>
            LET S == Returned(p)
            IN  /\ IF S.TotalRecords = 0
                   THEN /\ S.AverageBidPrice = ZeroRatio
                        /\ S.CTR = ZeroRatio
                        /\ S.AverageWinRate = ZeroRatio
                   ELSE /\ Near(S.AverageBidPrice, S.TotalRecords, S.TotalBidAmount, 3)
                        /\ Near(S.CTR, S.TotalImpressions, S.TotalClicks * 100, 4)
                /\ \A c \in DOMAIN S.CampaignPerformance :
                      LET m == S.CampaignPerformance[c]
                      IN  IF m.Impressions = 0 THEN m.CTR = ZeroRatio
                          ELSE Near(m.CTR, m.Impressions, m.Clicks * 100, 4)

\* C13 witness: a summary is returned for three rows with one click
C13_Witness ==
    \E p \in Procs :
        /\ inv[p].pc = "store"
        /\ Returned(p).TotalRecords = 3
        /\ Returned(p).TotalClicks = 1
        /\ Returned(p).CTR # ZeroRatio


\* the float64 f is the integer n
SameInt(n, f) == f[2] >= 0 /\ f[1] * 2^f[2] = n

\* the map read has the keys of the map saved, with the counts saved
SameCounts(saved, read) ==
    /\ DOMAIN read = DOMAIN saved
    /\ \A k \in DOMAIN saved : SameInt(saved[k], read[k])

\* every scalar and map field of the summary read is the one saved
SameSummary(saved, read) ==
    /\ read # NoSummary
    /\ SameInt(saved.TotalRecords, read.totalRecords)
    /\ SameInt(saved.TotalImpressions, read.totalImpressions)
    /\ SameInt(saved.TotalClicks, read.totalClicks)
    /\ SameInt(saved.TotalConversions, read.totalConversions)
    /\ read.totalBidAmount = saved.TotalBidAmount
    /\ read.totalWinCost = saved.TotalWinCost
    /\ read.ctr = saved.CTR
    /\ read.averageBidPrice = saved.AverageBidPrice
    /\ read.averageWinRate = saved.AverageWinRate
    /\ SameCounts(saved.DeviceBreakdown, read.deviceBreakdown)
    /\ SameCounts(saved.BrowserBreakdown, read.browserBreakdown)
    /\ SameCounts(saved.OSBreakdown, read.osBreakdown)
    /\ SameCounts(saved.GeoBreakdown, read.geoBreakdown)
    /\ SameCounts(saved.HourlyBreakdown, read.hourlyBreakdown)
    /\ SameCounts(saved.DomainBreakdown, read.domainBreakdown)
    /\ DOMAIN read.campaignPerformance = DOMAIN saved.CampaignPerformance
    /\ \A c \in DOMAIN saved.CampaignPerformance :
          LET m == saved.CampaignPerformance[c]
              r == read.campaignPerformance[c]
          IN  /\ SameInt(m.Impressions, r.impressions)
              /\ SameInt(m.Clicks, r.clicks)
              /\ SameInt(m.Conversions, r.conversions)
              /\ r.spend = m.Spend
              /\ r.ctr = m.CTR

\* the result read carries what the result saved carried
SameResult(saved, read) ==
    /\ read.FileID = saved.FileID
    /\ read.UserID = saved.UserID
    /\ read.FileName = saved.FileName
    /\ read.Status = saved.Status
    /\ SameSummary(saved.Summary, read.Summary)

\* the last call of p was a ProcessLogFile that saved its result
Saved(p) ==
    /\ inv[p].ret.returned
    /\ inv[p].ret.op = "ProcessLogFile"
    /\ inv[p].ret.err = NoErr

\* the last call of q was a GetAnalysisResult that returned the result
\* which the last call of p saved
LoadedFrom(q, p) ==
    /\ Saved(p)
    /\ inv[q].ret.returned
    /\ inv[q].ret.op = "GetAnalysisResult"
    /\ inv[q].ret.err = NoErr
    /\ inv[q].ret.result.FileID = inv[p].ret.result.FileID
    /\ inv[q].ret.result.UserID = inv[p].ret.result.UserID
    /\ inv[q].ret.result.ProcessedAt = inv[p].ret.result.ProcessedAt

\* C14 (as claimed): the result that GetAnalysisResult returns for a key
\* has the FileID, UserID, FileName, Status and every scalar and map field
\* of the summary of the result that storeAnalysisResult saved under it.
C14_ResultRoundTrip ==
    \A p, q \in Procs :
        LoadedFrom(q, p) => SameResult(inv[p].ret.result, inv[q].ret.result)


\* the key under which invocation p stores
KeyOf(p) == Key(inv[p].userID, inv[p].fileID)

\* a step in which q returns from GetAnalysisResult after reading the file
Loads(q) == inv[q].pc = "read" /\ inv'[q].pc = "idle"

\* C15 (as claimed): whichever save was the last under a key, the first or
\* a later one, a load of the key returns a result equal to the one it
\* saved (the key holds that one document and no other), and a save under a
\* key leaves what is stored under the other keys as it was.
C15_SaveOverwrites ==
    [][ /\ \A p, q \in Procs :
              (/\ Loads(q)
               /\ Saved(p)
               /\ KeyOf(q) = Key(inv[p].ret.result.UserID, inv[p].ret.result.FileID)
               /\ reports[KeyOf(q)] = Marshal(inv[p].ret.result))
              => /\ inv'[q].ret.err = NoErr
                 /\ inv'[q].ret.result.ProcessedAt = inv[p].ret.result.ProcessedAt
                 /\ SameResult(inv[p].ret.result, inv'[q].ret.result)
        /\ \A p \in Procs :
              inv[p].pc \in {"store", "write"} /\ inv'[p] # inv[p]
              => \A k \in DOMAIN reports : k # KeyOf(p) => reports'[k] = reports[k]
      ]_vars


\* the name ends in the four characters .csv
EndsInCsv(name) ==
    Len(name) >= 4 /\ SubSeq(name, Len(name) - 3, Len(name)) = <<".","c","s","v">>

\* the files that can be opened and whose name does not end in .csv
OtherFormats == {f \in FileIDs : uploads[f].exists /\ ~EndsInCsv(uploads[f].name)}

FailsReading(p) == inv[p].pc = "rows" /\ inv'[p].pc = "idle"

\* C17: when the read of a data row fails, after any number of rows, the
\* call returns the error with Status "error", an error message and no
\* summary, and the step leaves the result store as it was; no step of a
\* call before its store changes the result store, so that a result stored
\* earlier and the answer of IsLogFileProcessed are what they were.
C17_ReadFailureStoresNothing ==
    [][ \A p \in Procs :
          /\ FailsReading(p) =>
                /\ SubSeq(inv'[p].ret.err.chain, 1, 2)
                      = <<"failed to parse file", "error reading record">>
                /\ inv'[p].ret.result.Status = "error"
                /\ inv'[p].ret.result.ErrorMessage # NoErr
                /\ inv'[p].ret.result.Summary = NoSummary
                /\ ~inv'[p].ret.parsed
                /\ inv'[p].ret.rows = Aggregated(p)
          /\ (inv[p].pc \in {"idle", "unprocessed", "header", "rows"} /\ inv'[p] # inv[p]) =>
                /\ reports' = reports
                /\ \A f \in FileIDs, u \in Users :
                      IsLogFileProcessed(f, u)' = IsLogFileProcessed(f, u)
      ]_vars

\* C17 witness: a call has failed reading after a row was aggregated, for a
\* key under which an earlier call stored its result
C17_Witness ==
    \E p \in Procs :
        /\ inv[p].ret.op = "ProcessLogFile"
        /\ inv[p].ret.err.chain = <<"failed to parse file", "error reading record", "read error">>
        /\ inv[p].ret.rows >= 1
        /\ reports[Key(inv[p].ret.result.UserID, inv[p].ret.result.FileID)]
              \notin {NotStored, PartialDoc}


\* a step in which GetAnalysisResult returns to a caller p whose
\* IsLogFileProcessed had returned true for the key
AnswersChecked(p) == inv[p].pc = "read" /\ inv[p].checked /\ inv'[p].pc = "idle"

\* C18: no caller observes a partial result: a GetAnalysisResult that
\* follows an IsLogFileProcessed that returned true for the key returns,
\* without an error, a result with Status "completed" and its summary.
C18_NoPartialResultObserved ==
    [][ \A p \in Procs :
          AnswersChecked(p) =>
              /\ inv'[p].ret.err = NoErr
              /\ inv'[p].ret.result.Status = "completed"
              /\ inv'[p].ret.result.Summary # NoSummary
      ]_vars


\* C19: a call whose context is cancelled while it is in the record loop
\* observes it at its next step: it aggregates no further row, it returns
\* an error, and it leaves the result store as it was.
C19_CancellationStopsRun ==
    [][ \A p \in Procs :
          (inv[p].cancelled /\ inv[p].pc = "rows" /\ inv'[p] # inv[p]) =>
              /\ inv'[p].pc = "idle"
              /\ inv'[p].ret.err # NoErr
              /\ ~inv'[p].ret.parsed
              /\ reports' = reports
      ]_vars


\* the summaries a call of ProcessLogFile on file f alone returns
Solitary(f) ==
    { Finalize(Fold(NewSummary, r.colMap, DataRows(uploads[f].lines))) :
        r \in {x \in ResolveColumns(BuildColMap(uploads[f].header), 1) : x.ok} }

\* the result a call returned without an error is the completed result of
\* a call on its file alone, and it is the one stored under its key
StoredAsAlone(p) ==
    LET result == inv[p].ret.result
    IN  Saved(p) =>
            /\ result.Status = "completed"
            /\ result.Summary \in Solitary(result.FileID)
            /\ reports[Key(result.UserID, result.FileID)] = Marshal(result)

\* a step of p leaves the other callers, the other files and the results
\* stored for the other files as they were
LeavesOthers(p) ==
    inv'[p] # inv[p] =>
        /\ \A q \in Procs \ {p} : inv'[q] = inv[q]
        /\ \A f \in FileIDs \ {inv[p].fileID} : uploads'[f] = uploads[f]
        /\ \A k \in DOMAIN reports : reports'[k] # reports[k] => k[2] = inv[p].fileID

\* C20: concurrent calls of ProcessLogFile for different keys do not
\* interfere: in every interleaving the result each returns and stores is
\* the one a call alone on its file produces, and no step of a call changes
\* the accumulator of another call or the result stored under another key.
C20_DifferentKeysIndependent ==
    /\ [](\A p \in Procs : StoredAsAlone(p))
    /\ [][\A p \in Procs : LeavesOthers(p)]_vars

\* C20 witness: p1 has returned its stored result of a row for f1 from a
\* call that began while the call of p2 for f2, which is still writing, was
\* running
C20_Witness ==
    /\ Saved("p1")
    /\ inv["p1"].ret.result.FileID = "f1"
    /\ inv["p1"].ret.rows >= 1
    /\ reports[Key("u1", "f1")] = Marshal(inv["p1"].ret.result)
    /\ inv["p2"].pc = "write"
    /\ inv["p2"].fileID = "f2"
    /\ Aggregated("p2") >= 1
    /\ inv["p2"].result.ProcessedAt < inv["p1"].ret.result.ProcessedAt


\* the positions (from 0) of the header cells equal to the token
PositionsOf(header, tok) == {i - 1 : i \in {j \in 1..Len(header) : header[j] = tok}}

\* C21: when the header holds a cell exactly equal to a required name, the
\* name is mapped to the position of that cell (the last one when the name
\* is repeated), whatever other cells differ from it in letter case only;
\* a name is mapped to a cell in another letter case only when the header
\* holds no cell equal to it.
C21_ExactMatchFirst ==
    \A p \in Procs :
        InLoop(p) =>
            \A col \in Range(requiredCols) :
                LET exact == PositionsOf(FileOf(p).header, col)
                IN  /\ exact # {} =>
                          /\ inv[p].colMap[col] \in exact
                          /\ \A i \in exact : i <= inv[p].colMap[col]
                    /\ FileOf(p).header[inv[p].colMap[col] + 1] # col => exact = {}

\* C21 witness: a header with the cell "clicks" before the 16 canonical
\* names has been resolved, CLICKS to the position of the canonical cell
C21_Witness ==
    \E p \in Procs :
        /\ inv[p].pc = "rows"
        /\ FileOf(p).header = <<ToLower(CLICKS)>> \o requiredCols
        /\ inv[p].colMap[CLICKS] = 7
        /\ inv[p].colMap[ToLower(CLICKS)] = 0


\* the derived metrics of the summary are all 0
NoneDerived(summary) ==
    /\ summary.CTR = ZeroRatio
    /\ summary.AverageBidPrice = ZeroRatio
    /\ summary.AverageWinRate = ZeroRatio
    /\ \A id \in DOMAIN summary.CampaignPerformance :
          summary.CampaignPerformance[id].CTR = ZeroRatio

\* a step of p from the record loop, or after it
AfterLoop(p) == inv[p].pc \in {"rows", "store", "write"} /\ inv'[p] # inv[p]

\* C22: while a call aggregates rows the derived metrics of its summary
\* are 0; the step that ends the record loop computes them from the totals
\* of the rows; from then on the summary stays as it is until it is
\* written to the results file and returned.
C22_DerivedOnceAtEnd ==
    /\ [](\A p \in Procs : inv[p].pc = "rows" => NoneDerived(Summary(p)))
    /\ [][ \A p \in Procs :
             AfterLoop(p) =>
                 /\ (inv[p].pc = "rows" /\ inv'[p].pc = "store") =>
                       /\ inv'[p].summary = Finalize(inv[p].summary)
                       /\ inv'[p].result.Summary = inv'[p].summary
                 /\ (inv[p].pc = "store" /\ inv'[p].pc = "write") =>
                       /\ inv'[p].summary = inv[p].summary
                       /\ inv'[p].result = inv[p].result
                 /\ (inv[p].pc \in {"store", "write"} /\ inv'[p].pc = "idle") =>
                       /\ inv'[p].ret.result = inv[p].result
                       /\ inv'[p].ret.result.Summary = inv[p].summary
                 /\ (inv[p].pc = "write" /\ reports'[KeyOf(p)] # PartialDoc) =>
                       reports'[KeyOf(p)] = Marshal(inv[p].result)
         ]_vars

\* C22 witness: a call has returned and stored a summary with a campaign
\* whose CTR is not 0
C22_Witness ==
    \E p \in Procs :
        /\ Saved(p)
        /\ inv[p].ret.rows = 2
        /\ reports[Key(inv[p].ret.result.UserID, inv[p].ret.result.FileID)]
              = Marshal(inv[p].ret.result)
        /\ inv[p].ret.result.Summary.CTR # ZeroRatio
        /\ \E id \in DOMAIN inv[p].ret.result.Summary.CampaignPerformance :
              inv[p].ret.result.Summary.CampaignPerformance[id].CTR # ZeroRatio


\* the summaries the parser has returned: that of a call past the record
\* loop, and that of a call which has returned one
ReturnedSummaries ==
    {inv[p].result.Summary : p \in {q \in Procs : inv[q].pc \in {"store", "write"}}}
    \cup {inv[p].ret.result.Summary : p \in {q \in Procs : inv[q].ret.parsed}}

\* C23: in every returned summary AverageWinRate is 100 when TotalRecords
\* is greater than 0 and 0 when TotalRecords is 0.
C23_WinRateIsHundred ==
    \A summary \in ReturnedSummaries :
        /\ summary.TotalRecords >= 0
        /\ summary.TotalRecords > 0 => SameInt(100, summary.AverageWinRate)
        /\ summary.TotalRecords = 0 => summary.AverageWinRate = ZeroRatio

\* C23 witness: a summary of three rows, a number of rows by which a
\* division is in general inexact, has been returned
C23_Witness ==
    \E p \in Procs :
        /\ inv[p].ret.parsed
        /\ inv[p].ret.result.Summary.TotalRecords = MaxRows + 1
        /\ SameInt(100, inv[p].ret.result.Summary.AverageWinRate)


\* the cell is empty or time.Parse fails on it with both layouts
Unparsed(cell) ==
    \/ cell = <<>>
    \/ ~ParseLayout(cell, TRUE).ok /\ ~ParseLayout(cell, FALSE).ok

\* a summary without its time range and its hourly breakdown
Timeless(summary) == [summary EXCEPT !.TimeRange = <<>>, !.HourlyBreakdown = EmptyMap]

\* the sum of the counts of a breakdown
RECURSIVE CountsOver(_, _)
CountsOver(m, keys) ==
    IF keys = {} THEN 0
    ELSE LET k == CHOOSE x \in keys : TRUE
         IN  m[k] + CountsOver(m, keys \ {k})

\* the number of records read by p whose bid time was parsed and is not
\* the zero time
TimedRows(p) ==
    Cardinality({i \in 1..Aggregated(p) :
                    /\ ~Unparsed(CellOf(p, RecordsOf(p)[i], BID_TIME))
                    /\ ~IsZero(Decoded(p)[i].bidTime)})

\* C24: a row whose BID_TIME is empty or in neither layout is aggregated
\* without an error of the parser; it leaves TimeRange and HourlyBreakdown
\* as they were and changes the rest of the summary as the same row with a
\* valid bid time does.  The counts of HourlyBreakdown add up to the number
\* of rows whose bid time was parsed and is not the zero time.
C24_BadBidTimeSkipsTimeOnly ==
    /\ [](\A p \in Procs :
             InLoop(p) =>
                 CountsOver(Summary(p).HourlyBreakdown, DOMAIN Summary(p).HourlyBreakdown)
                     = TimedRows(p))
    /\ [][\A p \in Procs :
             LET rec == NextRecord(p)
             IN  (/\ rec # <<>>
                  /\ Len(rec) = Len(FileOf(p).header)
                  /\ Unparsed(CellOf(p, rec, BID_TIME)))
                 => \/ /\ inv'[p].pc = "rows"
                       /\ StepRecord(p) = rec
                       /\ inv'[p].summary.TimeRange = Summary(p).TimeRange
                       /\ inv'[p].summary.HourlyBreakdown = Summary(p).HourlyBreakdown
                       /\ Timeless(inv'[p].summary) =
                             Timeless(AggregateRecord(Summary(p), inv[p].colMap,
                                                      ReplaceCell(p, rec, BID_TIME, T_10h)))
                    \/ /\ inv'[p].pc = "idle"
                       /\ inv'[p].ret.err = Error(<<"failed to parse file", "error reading record",
                                                    "read error">>, <<>>)]_vars

\* C24 witness: a row with a valid bid time and then a row in the ISO
\* layout, which is neither of the two, have been aggregated
C24_Witness ==
    \E p \in Procs :
        /\ inv[p].pc = "rows"
        /\ Aggregated(p) = 2
        /\ CellOf(p, RecordsOf(p)[1], BID_TIME) = T_10h
        /\ CellOf(p, RecordsOf(p)[2], BID_TIME) = T_iso
        /\ Summary(p).TotalRecords = 2
        /\ Summary(p).HourlyBreakdown = (HourKey(ParseBidTime(T_10h)) :> 1)


\* the last call of p stored the result that is stored under the key of q
StoredBy(p, q) ==
    /\ Saved(p)
    /\ Key(inv[p].ret.result.UserID, inv[p].ret.result.FileID) = KeyOf(q)
    /\ reports[KeyOf(q)] = Marshal(inv[p].ret.result)

\* a step of a call of FileService.ProcessLogFile that found the key
\* processed
Reuses(q) == inv[q].pc \in {"processed", "read"} /\ inv[q].checked /\ inv'[q] # inv[q]

\* C25: a call of FileService.ProcessLogFile for a key under which a
\* result is stored does not enter the parser, starts no new result and
\* leaves the uploaded files and the stored results as they are; it returns
\* a result equal to the one the call that stored it returned, ProcessedAt
\* included.
C25_StoredResultReused ==
    [][ \A q \in Procs :
          Reuses(q) =>
              /\ inv'[q].pc \in {"read", "idle"}
              /\ reports' = reports
              /\ uploads' = uploads
              /\ clock' = clock
              /\ AnswersChecked(q) =>
                    /\ ~inv'[q].ret.parsed
                    /\ \A p \in Procs \ {q} :
                          StoredBy(p, q) =>
                              /\ inv'[q].ret.err = NoErr
                              /\ inv'[q].ret.result.ProcessedAt = inv[p].ret.result.ProcessedAt
                              /\ SameResult(inv[p].ret.result, inv'[q].ret.result)
      ]_vars


\* the parser has returned a summary to the call of p
ParsedFile(p) == inv[p].pc = "store"

\* the parser has returned its error for the header to the last call of p
HeaderRefused(p) ==
    /\ inv[p].ret.returned
    /\ Len(inv[p].ret.err.chain) >= 2
    /\ inv[p].ret.err.chain[2] \in {"required column not found", "failed to read header"}

\* C26: two runs of the parser over the same file return the same: two
\* summaries that are equal, or the same error for the header, whatever the
\* header, one that names a required column in two letter cases neither of
\* which is the exact one included.
C26_ParseDeterministic ==
    \A p, q \in Procs :
        /\ (ParsedFile(p) /\ ParsedFile(q) /\ inv[p].fileID = inv[q].fileID) =>
              inv[p].result.Summary = inv[q].result.Summary
        /\ (HeaderRefused(p) /\ HeaderRefused(q)
               /\ inv[p].ret.result.FileID = inv[q].ret.result.FileID) =>
              inv[p].ret.err = inv[q].ret.err
        /\ (HeaderRefused(p) /\ inv[q].fileID = inv[p].ret.result.FileID) =>
              inv[q].pc \notin {"rows", "store", "write"}


\* the last call of q was a GetFile or a DeleteFile that began after a
\* DeleteFile of its key had returned nil
AfterDelete(q) ==
    /\ inv[q].ret.op \in {"GetFile", "DeleteFile"}
    /\ inv[q].ret.late

\* C27: a GetFile or DeleteFile that begins after DeleteFile has returned
\* nil for its id and user returns the error "file not found", whatever
\* the shared directory holds, a stored analysis result included.
C27_DeletedStaysDeleted ==
    \A q \in Procs :
        /\ AfterDelete(q) => inv[q].ret.err.chain = <<"file not found">>
        /\ inv[q].late => inv[q].pc \notin {"open", "remove"}


\* a step in which ProcessLogFile returns to p
Returns(p) ==
    /\ inv[p].pc # "idle" \/ inv'[p].ret # inv[p].ret
    /\ inv'[p].pc = "idle"
    /\ inv'[p].ret.op = "ProcessLogFile"

\* C28: ProcessLogFile never returns a result with Status "processing";
\* it returns an error exactly when the result has Status "error" and an
\* error message, and no error exactly when the result has Status
\* "completed" and is stored under its key.
C28_StatusAgreesWithError ==
    [][ \A p \in Procs :
          Returns(p) =>
              LET result == inv'[p].ret.result
                  err    == inv'[p].ret.err
                  stored == reports'[Key(result.UserID, result.FileID)] = Marshal(result)
              IN  /\ result.Status # "processing"
                  /\ err # NoErr <=> (result.Status = "error" /\ result.ErrorMessage # NoErr)
                  /\ err = NoErr <=> (result.Status = "completed" /\ stored)
      ]_vars


\* a is not later than b
NotAfter(a, b) == a = b \/ Before(a, b)

\* C29: in every summary the parser returns, TimeRange[0] is not later
\* than TimeRange[1] exactly when HourlyBreakdown is not empty; when no row
\* had a bid time that was parsed and is not the zero time, a file of the
\* header alone included, TimeRange is the pair (9999-01-01, 1970-01-01),
\* its first instant the later one.
C29_RangeOrderedIffTimed ==
    \A p \in Procs :
        ParsedFile(p) =>
            LET summary == inv[p].result.Summary
            IN  /\ NotAfter(summary.TimeRange[1], summary.TimeRange[2])
                      <=> summary.HourlyBreakdown # EmptyMap
                /\ TimedRows(p) = 0 =>
                      /\ summary.TimeRange = <<FarFuture, FarPast>>
                      /\ After(summary.TimeRange[1], summary.TimeRange[2])
                      /\ summary.HourlyBreakdown = EmptyMap

\* C29 witness: the parser has returned the summary of two rows, one with
\* an empty bid time and one with the zero time, its range the sentinels
C29_Witness ==
    \E p \in Procs :
        /\ ParsedFile(p)
        /\ Aggregated(p) = 2
        /\ {CellOf(p, RecordsOf(p)[i], BID_TIME) : i \in 1..2} = {<<>>, T_zero}
        /\ inv[p].result.Summary.TimeRange = <<FarFuture, FarPast>>


\* the required columns that the record loop never reads
Ignored == {ACCOUNT_ID, AUCTION_ID, CLEARING_PRICE_MICROS_USD, CREATIVE_ID, GEO_CITY}

\* other cells for them: all empty, all a number, or one of them a number
\* and the rest empty
OtherCells ==
    {[col \in Ignored |-> IF col \in S THEN <<"9","9">> ELSE <<>>] :
        S \in {{}, Ignored} \cup {{col} : col \in Ignored}}

\* the record with the cell of every ignored column replaced
Rewritten(p, record, cells) ==
    [i \in 1..Len(record) |->
        IF \E col \in Ignored : inv[p].colMap[col] + 1 = i
        THEN cells[CHOOSE col \in Ignored : inv[p].colMap[col] + 1 = i]
        ELSE record[i]]

\* C30: the summary the parser returns for a file is the summary of every
\* file with the same header and the same rows but for the cells of
\* ACCOUNT_ID, AUCTION_ID, CLEARING_PRICE_MICROS_USD, CREATIVE_ID and
\* GEO_CITY.
C30_IgnoredColumnsIrrelevant ==
    \A p \in Procs :
        ParsedFile(p) =>
            \A cells \in OtherCells :
                LET other == [i \in 1..Aggregated(p) |-> Rewritten(p, RecordsOf(p)[i], cells)]
                IN  Finalize(Fold(NewSummary, inv[p].colMap, other)) = inv[p].result.Summary

\* C30 witness: the parser has returned the summary of two rows with
\* different account ids and clicks, which is that of the rows with the
\* ignored cells empty
C30_Witness ==
    \E p \in Procs :
        /\ ParsedFile(p)
        /\ Aggregated(p) = 2
        /\ CellOf(p, RecordsOf(p)[1], ACCOUNT_ID) # CellOf(p, RecordsOf(p)[2], ACCOUNT_ID)
        /\ inv[p].result.Summary.TotalRecords = 2
        /\ inv[p].result.Summary =
              Finalize(Fold(NewSummary, inv[p].colMap,
                            [i \in 1..2 |-> Rewritten(p, RecordsOf(p)[i], [col \in Ignored |-> <<>>])]))

=============================================================================
